---- MODULE Spec2Model ----
(***************************************************************************)
(* State-machine model of the chat client: the Chat Synchronization Store   *)
(* (ChatsProvider), the Session Manager (AuthProvider) and the backend      *)
(* tables, realtime channels and auth provider they talk to.                *)
(*                                                                          *)
(* React state is modelled by variables of the same name.  An event         *)
(* handler, an effect or the continuation of an await is one action: the    *)
(* UI thread runs each of them to completion.  A backend call is a task     *)
(* record that the backend resolves and the client later resumes.           *)
(***************************************************************************)
EXTENDS Integers, Sequences, FiniteSets, TLC

\* ---------------------------------------------------------------- bounds
\* Messages the messages table may hold.
MaxMsgs == 2
\* Largest created_at / updated_at a client clock may produce.
MaxTime == 2
\* Per-chat realtime subscriptions the store may create.
MaxSubs == 3
\* Largest updated_at another client writes into a chats row.
MaxUpdatedAt == 1
\* Access tokens the provider hands out per user.
MaxTokens == 1
\* Auth-change notifications queued at once.
MaxAuthEvents == 2
\* signIn / signUp / signOut calls in flight at once.
MaxAuthCalls == 1
\* Calls of sendMessage in flight at once.
MaxSends == 1
\* fetchChats calls in flight at once.
MaxChatFetches == 1
\* Chat-change handlers suspended at once.
MaxChatHandlers == 2

\* ------------------------------------------------------------- universes
Null == "null"
Users == {"u1", "u2"}
ChatIds == {"A", "B"}
Times == 1..MaxTime
\* The attachment argument of sendMessage: its declared MIME type, <<>> when
\* the call has no attachment.
ImagePng == <<"i","m","a","g","e","/","p","n","g">>
Attachments == {<<>>, <<ImagePng>>}
\* More declared types: a video, a document, a type naming both words, and
\* the empty type of a file the browser could not identify.
VideoMp4 == <<"v","i","d","e","o","/","m","p","4">>
ApplicationPdf ==
    <<"a","p","p","l","i","c","a","t","i","o","n","/","p","d","f">>
VideoXImage == <<"v","i","d","e","o","/","x","-","i","m","a","g","e">>
AnyAttachments ==
    Attachments \cup
        {<<VideoMp4>>, <<ApplicationPdf>>, <<VideoXImage>>, << <<>> >>}
\* getPublicUrl(filePath).data.publicUrl
PublicUrl == "publicUrl"

\* A string is a sequence of one-character strings; an optional string is a
\* sequence of at most one string (<<>> is undefined).
PeriskopeTeamChat ==
    <<"P","e","r","i","s","k","o","p","e"," ","T","e","a","m"," ","C","h","a","t">>
TestDemo17 == <<"T","e","s","t"," ","D","e","m","o","1","7">>
ChatNames == {<<>>, <<PeriskopeTeamChat>>, <<TestDemo17>>}
\* Queries typed into the search box.
Queries ==
    { <<>>, <<" ">>, <<"t","e","a","m">>, <<"T","E","A","M">>,
      <<"c","h","a","t"," ">> }

\* currentChat = null, messageSubscription = null
NoChat == [id |-> Null, name |-> <<>>, updated_at |-> 0, last_message |-> 0]
NoSub == [n |-> 0, chat |-> Null]
\* session = null
NoSession == [user |-> Null, token |-> 0]

\* chat_members rows: (user_id, chat_id)
dbMembers == { <<"u1", "A">>, <<"u1", "B">>, <<"u2", "B">> }

VARIABLES
    \* ---- ChatsProvider (React state)
    user,                \* useAuth().user: a user id or Null
    chats,
    filteredChats,
    currentChat,
    messages,
    chatsLoading,        \* ChatsProvider's loading
    messageSubscription,
    \* ---- ChatsProvider (effects, closures, tasks in flight)
    mounted,             \* the provider is mounted
    effectPc,            \* position inside the [currentChat] effect
    cleanupSub,          \* messageSubscription as captured by the last effect's cleanup
    msgFetches,          \* fetchMessages calls in flight
    chatFetches,         \* fetchChats calls in flight
    chatHandlers,        \* chat-change handlers suspended at an await
    sends,               \* sendMessage calls in flight
    toasts,              \* toast.error messages shown
    \* ---- backend
    dbMessages,          \* messages table, in commit order
    dbChats,             \* chats table: id -> [name, updated_at]
    channels,            \* per-chat realtime channels registered on the client
    chatChannel,         \* user captured by the 'public:chats' channel, or Null
    pushQ,               \* message events on the socket, not yet delivered
    nextSub,             \* number given to the next per-chat channel
    clock,               \* this client's clock
    \* ---- history
    lastAct,             \* "sendMessage" when the UI's last call was sendMessage
    applied,             \* chat id -> the row last written into the chat list
    lastQuery,           \* the query of the last filterChats call
    \* ---- AuthProvider (React state)
    session,
    loading,
    \* ---- AuthProvider (effects, calls in flight)
    configured,          \* the supabase client is not null
    authPc,              \* "init" before the mount effects ran, then "mounted"
    getSession,          \* the initial getSession() promise: [stage, value]
    listening,           \* the onAuthStateChange subscription is active
    authCalls,           \* signIn / signUp / signOut calls in flight
    route,               \* the last navigate() target
    authToast,           \* the toast AuthProvider showed last
    \* ---- auth provider and users table
    provSession,         \* the provider's current session
    authEvents,          \* auth-change notifications not yet delivered
    accounts,            \* users registered at the provider
    dbUsers,             \* ids of the users-table rows
    \* ---- history
    notified,            \* the notification handled last, and how many times in a row
    \* ---- gateway module (fetchUsers, fetchUserChats, fetchChatMessages,
    \* sendChatMessage)
    gwClient,            \* the module's supabase client is not null
    gwCall,              \* the gateway call in progress
    gwOut,               \* how the last gateway call ended
    gwLog,               \* the backend requests the last gateway call made
    gwToast,             \* the toast the gateway showed last
    \* ---- startup
    env,                 \* which of VITE_SUPABASE_URL / VITE_SUPABASE_ANON_KEY are set
    chatsModule          \* how the ChatsContext module's client construction ended

storeVars ==
    <<user, chats, filteredChats, currentChat, messages, chatsLoading,
      messageSubscription>>
effectVars ==
    <<mounted, effectPc, cleanupSub, msgFetches, chatFetches, chatHandlers,
      sends, toasts>>
backendVars ==
    <<dbMessages, dbChats, channels, chatChannel, pushQ, nextSub, clock>>
histVars == <<lastAct, applied, lastQuery>>
authVars ==
    <<session, loading, configured, authPc, getSession, listening, authCalls,
      route, authToast, provSession, authEvents, accounts, dbUsers, notified>>
gwVars == <<gwClient, gwCall, gwOut, gwLog, gwToast>>
envVars == <<env, chatsModule>>
vars ==
    <<storeVars, effectVars, backendVars, histVars, authVars, gwVars, envVars>>

\* ------------------------------------------------------ sequence helpers
Range(s) == { s[i] : i \in 1..Len(s) }

RECURSIVE SetToSeqs(_)
\* Every ordering of a finite set.
SetToSeqs(S) ==
    IF S = {} THEN { <<>> }
    ELSE UNION { { <<x>> \o t : t \in SetToSeqs(S \ {x}) } : x \in S }

\* ------------------------------------------------- strings (filterChats)
UpperCase ==
    <<"A","B","C","D","E","F","G","H","I","J","K","L","M",
      "N","O","P","Q","R","S","T","U","V","W","X","Y","Z">>
LowerCase ==
    <<"a","b","c","d","e","f","g","h","i","j","k","l","m",
      "n","o","p","q","r","s","t","u","v","w","x","y","z">>
WhiteSpace == {" ", "\t", "\n"}

Chars ==
    Range(UpperCase) \cup Range(LowerCase) \cup WhiteSpace
      \cup {"0","1","2","3","4","5","6","7","8","9","/","+","."}
LowerOf ==
    [c \in Chars |->
       IF \E i \in 1..26 : UpperCase[i] = c
       THEN LowerCase[CHOOSE i \in 1..26 : UpperCase[i] = c]
       ELSE c]
LowerChar(c) == LowerOf[c]

\* String.prototype.toLowerCase
ToLowerCase(s) == [i \in 1..Len(s) |-> LowerChar(s[i])]

\* String.prototype.includes
Includes(s, sub) ==
    \E i \in 0..(Len(s) - Len(sub)) : SubSeq(s, i + 1, i + Len(sub)) = sub

RECURSIVE TrimStart(_)
TrimStart(s) ==
    IF s # <<>> /\ Head(s) \in WhiteSpace THEN TrimStart(Tail(s)) ELSE s

RECURSIVE TrimEnd(_)
TrimEnd(s) ==
    IF s # <<>> /\ s[Len(s)] \in WhiteSpace
    THEN TrimEnd(SubSeq(s, 1, Len(s) - 1))
    ELSE s

\* String.prototype.trim
Trim(s) == TrimEnd(TrimStart(s))

\* A filter that compares without lowering the name's case.
NameMatchesCaseSensitive(chat, query) ==
    /\ chat.name # <<>>
    /\ Includes(chat.name[1], ToLowerCase(query))

\* chat.name?.toLowerCase().includes(query.toLowerCase())
NameMatches(chat, query) ==
    /\ chat.name # <<>>
    /\ Includes(ToLowerCase(chat.name[1]), ToLowerCase(query))

\* The list filterChats stores in filteredChats.
FilterResult(list, query) ==
    IF Trim(query) = <<>>
    THEN list
    ELSE SelectSeq(list, LAMBDA chat : NameMatches(chat, query))

\* ------------------------------------------------------ backend queries
RECURSIVE InsertByCreatedAt(_, _)
InsertByCreatedAt(s, m) ==
    IF s = <<>> THEN <<m>>
    ELSE IF Head(s).created_at <= m.created_at
         THEN <<Head(s)>> \o InsertByCreatedAt(Tail(s), m)
         ELSE <<m>> \o s

RECURSIVE OrderByCreatedAt(_)
\* .order('created_at', { ascending: true }); rows of equal created_at keep
\* their commit order.
OrderByCreatedAt(s) ==
    IF s = <<>> THEN <<>>
    ELSE InsertByCreatedAt(OrderByCreatedAt(SubSeq(s, 1, Len(s) - 1)), s[Len(s)])

\* from('messages').select('*').eq('chat_id', chatId).order('created_at')
SelectMessages(chatId) ==
    OrderByCreatedAt(SelectSeq(dbMessages, LAMBDA m : m.chat_id = chatId))

\* The id of the row of chatId with the greatest created_at, 0 when the chat
\* has no message (.order('created_at', {ascending: false}).limit(1).single()
\* then answers an error and data is null).
LastMessageOf(chatId) ==
    LET rows == SelectMessages(chatId)
    IN  IF rows = <<>> THEN 0 ELSE rows[Len(rows)].id

\* A row of the chats table as select('*') returns it: no last_message.
ChatRow(chatId) ==
    [id |-> chatId, name |-> dbChats[chatId].name,
     updated_at |-> dbChats[chatId].updated_at, last_message |-> 0]

\* from('chats').select('*').in('id', ids).order('updated_at', {ascending:
\* false}): every ordering of the rows that descends in updated_at.
SelectChats(ids) ==
    { s \in SetToSeqs({ ChatRow(c) : c \in ids }) :
        \A i \in 1..(Len(s) - 1) : s[i].updated_at >= s[i + 1].updated_at }

\* A classification that knows images only.
AttachmentTypeNoVideo(att) ==
    IF att = <<>> THEN Null
    ELSE IF Includes(att[1], <<"i","m","a","g","e">>) THEN "image"
    ELSE "document"

\* attachmentUrl: undefined without an attachment, else the public URL of the
\* uploaded file.
AttachmentUrl(att) == IF att = <<>> THEN Null ELSE PublicUrl

\* attachment.type.includes('image') ? 'image' : includes('video') ? ...
AttachmentType(att) ==
    IF att = <<>> THEN Null
    ELSE IF Includes(att[1], <<"i","m","a","g","e">>) THEN "image"
    ELSE IF Includes(att[1], <<"v","i","d","e","o">>) THEN "video"
    ELSE "document"

\* ---------------------------------------------------- realtime channels
\* supabase.removeChannel(sub): the channel leaves the client's registry and
\* its callback is never called again.
ChannelsWithout(sub) == channels \ {sub}
QueueWithout(sub) == SelectSeq(pushQ, LAMBDA e : e.sub # sub)

RECURSIVE EventsFrom(_, _)
\* One INSERT event per registered channel whose filter chat_id=eq.<id>
\* matches the new row, in the order the channels were created.
EventsFrom(n, msg) ==
    IF n >= nextSub THEN <<>>
    ELSE (IF [n |-> n, chat |-> msg.chat_id] \in channels
          THEN << [sub |-> [n |-> n, chat |-> msg.chat_id], new |-> msg] >>
          ELSE <<>>) \o EventsFrom(n + 1, msg)

\* The messages table after an insert commits, and the events it emits.
CommitMessage(chatId, createdAt, attUrl, attType) ==
    LET msg == [id |-> Len(dbMessages) + 1, chat_id |-> chatId,
                created_at |-> createdAt, attachment_url |-> attUrl,
                attachment_type |-> attType]
    IN  /\ dbMessages' = Append(dbMessages, msg)
        /\ pushQ' = pushQ \o EventsFrom(1, msg)

\* A write to a chats row: every client subscribed to 'public:chats' gets the
\* event, and this client's handler starts and awaits its membership query.
CommitChat(chatId, updatedAt) ==
    /\ dbChats' = [dbChats EXCEPT ![chatId].updated_at = updatedAt]
    /\ chatHandlers' =
         IF chatChannel = Null \/ Cardinality(chatHandlers) >= MaxChatHandlers
         THEN chatHandlers
         ELSE chatHandlers \cup
                { [user |-> chatChannel, chat |-> chatId, stage |-> "member",
                   payload |-> updatedAt, row |-> NoChat] }

\* ------------------------------------------------------------------ Init
\* The state after ChatsProvider mounted with no signed-in user: the effects
\* of the first render have run (no user, no current chat: they do nothing).
InitStore ==
    /\ user = Null
    /\ chats = <<>>
    /\ filteredChats = <<>>
    /\ currentChat = NoChat
    /\ messages = <<>>
    /\ chatsLoading = TRUE
    /\ messageSubscription = NoSub
    /\ mounted = TRUE
    /\ effectPc = "idle"
    /\ cleanupSub = NoSub
    /\ msgFetches = {}
    /\ chatFetches = {}
    /\ chatHandlers = {}
    /\ sends = {}
    /\ toasts = {}
    /\ dbMessages = <<>>
    /\ channels = {}
    /\ chatChannel = Null
    /\ pushQ = <<>>
    /\ nextSub = 1
    /\ clock = 1
    /\ lastAct = "other"
    /\ applied = [c \in ChatIds |-> NoChat]
    /\ lastQuery = <<>>

\* AuthProvider as constructed (useState initial values), before its mount
\* effects run; the provider may or may not hold a session already.
InitAuthState ==
    /\ session = NoSession
    /\ loading = TRUE
    /\ authPc = "init"
    /\ getSession = [stage |-> "none", value |-> NoSession]
    /\ listening = FALSE
    /\ authCalls = {}
    /\ route = ""
    /\ authToast = ""
    /\ authEvents = <<>>
    /\ dbUsers = {}
    /\ notified = [session |-> NoSession, times |-> 0]

\* No gateway call made yet.
NoCall == [variant |-> "", fn |-> "", stage |-> "idle", arg |-> Null,
           att |-> <<>>, ids |-> {}, rows |-> <<>>, attType |-> Null, at |-> 0]
NoOutcome ==
    [fn |-> "", arg |-> Null, kind |-> "none", value |-> <<>>, error |-> ""]

InitGateway ==
    /\ gwCall = NoCall
    /\ gwOut = NoOutcome
    /\ gwLog = <<>>
    /\ gwToast = ""

\* Both settings present: every module has its client.
AllSet == [url |-> TRUE, key |-> TRUE]

\* supabaseUrl && supabaseAnonKey
HasClient(e) == e.url /\ e.key

\* The gateway as the other specifications hold it: configured, not called,
\* and the ChatsContext module loaded with its client.
InitGatewayIdle ==
    /\ InitGateway
    /\ gwClient = TRUE
    /\ env = AllSet
    /\ chatsModule = "client"

\* The auth side as the store specifications hold it: not moving.
InitAuthIdle ==
    /\ InitAuthState
    /\ configured = TRUE
    /\ provSession = NoSession
    /\ accounts = Users

\* The chats table with any names, present or not.
InitAnyChats ==
    dbChats \in [ChatIds -> [name : ChatNames, updated_at : {0}]]

\* The chats table of the running example.
InitChats ==
    dbChats = [c \in ChatIds |->
                 [name |-> IF c = "A" THEN <<PeriskopeTeamChat>> ELSE <<TestDemo17>>,
                  updated_at |-> 0]]

\* A UI handler can run: the provider is mounted and no effect is running.
Idle == mounted /\ effectPc = "idle"
\* A response or an event can be processed: no effect is running.  Once the
\* provider is unmounted its state is gone and the model stops.
Quiet == mounted /\ effectPc = "idle"

\* ------------------------------------ currentChat effect (lines 376-428)
\* setCurrentChat(chat): the state changes and the [currentChat] effect is
\* scheduled.  setCurrentChat(null) while currentChat is null re-renders
\* nothing.  The chats the UI can pass are those of the lists it renders.
SetCurrentChat(c) ==
    /\ Idle
    /\ c # NoChat \/ currentChat # NoChat
    /\ c # NoChat => nextSub <= MaxSubs
    /\ currentChat' = c
    /\ effectPc' = "cleanup"
    /\ lastAct' = "other"
    /\ UNCHANGED <<authVars, gwVars, envVars>>
    /\ UNCHANGED <<user, chats, filteredChats, messages, chatsLoading,
                   messageSubscription, mounted, cleanupSub, msgFetches,
                   chatFetches, chatHandlers, sends, toasts, backendVars,
                   applied, lastQuery>>

\* The cleanup returned by the previous run of the effect: it removes the
\* messageSubscription its closure captured.
EffectCleanup ==
    /\ effectPc = "cleanup"
    /\ channels' = IF cleanupSub # NoSub THEN ChannelsWithout(cleanupSub) ELSE channels
    /\ pushQ' = IF cleanupSub # NoSub THEN QueueWithout(cleanupSub) ELSE pushQ
    /\ effectPc' = "fetch"
    /\ UNCHANGED <<authVars, gwVars, envVars>>
    /\ UNCHANGED <<storeVars, mounted, cleanupSub, msgFetches, chatFetches,
                   chatHandlers, sends, toasts, dbMessages, dbChats, chatChannel,
                   nextSub, clock, histVars>>

\* fetchMessages(): returns at once without a current chat, else sends the
\* query and suspends.
EffectFetchMessages ==
    /\ effectPc = "fetch"
    /\ msgFetches' =
         IF currentChat = NoChat THEN msgFetches
         ELSE msgFetches \cup
                { [chat |-> currentChat.id, stage |-> "sent", data |-> <<>>] }
    /\ effectPc' = "remove"
    /\ UNCHANGED <<authVars, gwVars, envVars>>
    /\ UNCHANGED <<storeVars, mounted, cleanupSub, chatFetches, chatHandlers,
                   sends, toasts, backendVars, histVars>>

\* An effect that subscribes without removing the previous subscription.
EffectKeepPrevious ==
    /\ effectPc = "remove"
    /\ effectPc' = "subscribe"
    /\ UNCHANGED <<authVars, gwVars, envVars>>
    /\ UNCHANGED <<storeVars, mounted, cleanupSub, msgFetches, chatFetches,
                   chatHandlers, sends, toasts, backendVars, histVars>>

\* if (messageSubscription) supabase.removeChannel(messageSubscription)
EffectRemovePrevious ==
    /\ effectPc = "remove"
    /\ channels' = IF messageSubscription # NoSub
                   THEN ChannelsWithout(messageSubscription) ELSE channels
    /\ pushQ' = IF messageSubscription # NoSub
                THEN QueueWithout(messageSubscription) ELSE pushQ
    /\ effectPc' = "subscribe"
    /\ UNCHANGED <<authVars, gwVars, envVars>>
    /\ UNCHANGED <<storeVars, mounted, cleanupSub, msgFetches, chatFetches,
                   chatHandlers, sends, toasts, dbMessages, dbChats, chatChannel,
                   nextSub, clock, histVars>>

\* if (currentChat) { subscribe; setMessageSubscription(subscription) }, and
\* the effect returns its cleanup, which closes over the messageSubscription
\* of this render.
EffectSubscribe ==
    /\ effectPc = "subscribe"
    /\ IF currentChat # NoChat
       THEN LET sub == [n |-> nextSub, chat |-> currentChat.id]
            IN  /\ channels' = channels \cup {sub}
                /\ messageSubscription' = sub
                /\ nextSub' = nextSub + 1
       ELSE UNCHANGED <<channels, messageSubscription, nextSub>>
    /\ cleanupSub' = messageSubscription
    /\ effectPc' = "idle"
    /\ UNCHANGED <<authVars, gwVars, envVars>>
    /\ UNCHANGED <<user, chats, filteredChats, currentChat, messages,
                   chatsLoading, mounted, msgFetches, chatFetches, chatHandlers,
                   sends, toasts, dbMessages, dbChats, chatChannel, pushQ, clock,
                   histVars>>

\* The backend answers a messages query: the rows of the chat, or an error.
MsgFetchResolve(task, ok) ==
    /\ Quiet
    /\ task \in msgFetches /\ task.stage = "sent"
    /\ msgFetches' = (msgFetches \ {task}) \cup
         { IF ok THEN [task EXCEPT !.stage = "ok", !.data = SelectMessages(task.chat)]
                 ELSE [task EXCEPT !.stage = "err"] }
    /\ UNCHANGED <<authVars, gwVars, envVars>>
    /\ UNCHANGED <<storeVars, mounted, effectPc, cleanupSub, chatFetches,
                   chatHandlers, sends, toasts, backendVars, histVars>>

\* fetchMessages resumes: setMessages(data), or the catch block's toast.
MsgFetchDeliver(task) ==
    /\ Quiet
    /\ task \in msgFetches /\ task.stage \in {"ok", "err"}
    /\ msgFetches' = msgFetches \ {task}
    /\ messages' = IF task.stage = "ok" THEN task.data ELSE messages
    /\ toasts' = IF task.stage = "err"
                 THEN toasts \cup {"Failed to load messages"} ELSE toasts
    /\ UNCHANGED <<authVars, gwVars, envVars>>
    /\ UNCHANGED <<user, chats, filteredChats, currentChat, chatsLoading,
                   messageSubscription, mounted, effectPc, cleanupSub,
                   chatFetches, chatHandlers, sends, backendVars, histVars>>

\* The INSERT callback of a per-chat channel:
\* setMessages(prev => [...prev, payload.new])
DeliverMessageEvent ==
    /\ Quiet
    /\ pushQ # <<>>
    /\ pushQ' = Tail(pushQ)
    /\ messages' = Append(messages, Head(pushQ).new)
    /\ UNCHANGED <<authVars, gwVars, envVars>>
    /\ UNCHANGED <<user, chats, filteredChats, currentChat, chatsLoading,
                   messageSubscription, effectVars, dbMessages, dbChats,
                   channels, chatChannel, nextSub, clock, histVars>>

\* ------------------------------------------- sendMessage (lines 430-496)
\* A sendMessage whose guard is only if (!currentChat) return.
SendMessageNoUserCheck(att) ==
    /\ Idle
    /\ lastAct' = "sendMessage"
    /\ IF currentChat = NoChat
       THEN UNCHANGED <<sends, clock>>
       ELSE /\ Cardinality(sends) < MaxSends
            /\ \E t \in clock..MaxTime :
                 /\ clock' = t
                 /\ sends' = sends \cup
                      { [chat |-> currentChat.id, user |-> user, att |-> att,
                         stage |-> IF att = <<>> THEN "insert" ELSE "upload",
                         at |-> IF att = <<>> THEN t ELSE 0] }
    /\ UNCHANGED <<authVars, gwVars, envVars>>
    /\ UNCHANGED <<storeVars, mounted, effectPc, cleanupSub, msgFetches,
                   chatFetches, chatHandlers, toasts, dbMessages, dbChats,
                   channels, chatChannel, pushQ, nextSub, applied, lastQuery>>

\* sendMessage(content, attachment): returns at once without a current chat
\* or a user; else it starts the upload, or without an attachment builds the
\* insert (created_at: new Date()) and suspends.
SendMessage(att) ==
    /\ Idle
    /\ lastAct' = "sendMessage"
    /\ IF currentChat = NoChat \/ user = Null
       THEN UNCHANGED <<sends, clock>>
       ELSE /\ Cardinality(sends) < MaxSends
            /\ \E t \in clock..MaxTime :
                 /\ clock' = t
                 /\ sends' = sends \cup
                      { [chat |-> currentChat.id, user |-> user, att |-> att,
                         stage |-> IF att = <<>> THEN "insert" ELSE "upload",
                         at |-> IF att = <<>> THEN t ELSE 0] }
    /\ UNCHANGED <<authVars, gwVars, envVars>>
    /\ UNCHANGED <<storeVars, mounted, effectPc, cleanupSub, msgFetches,
                   chatFetches, chatHandlers, toasts, dbMessages, dbChats,
                   channels, chatChannel, pushQ, nextSub, applied, lastQuery>>

\* The upload is answered: on an error the catch block toasts; else the
\* insert is built (created_at: new Date()) and sent.
SendUploadDone(task, ok) ==
    /\ Quiet
    /\ task \in sends /\ task.stage = "upload"
    /\ IF ok
       THEN \E t \in clock..MaxTime :
              /\ clock' = t
              /\ sends' = (sends \ {task}) \cup
                   { [task EXCEPT !.stage = "insert", !.at = t] }
              /\ toasts' = toasts
       ELSE /\ sends' = sends \ {task}
            /\ toasts' = toasts \cup {"Failed to send message"}
            /\ clock' = clock
    /\ UNCHANGED <<authVars, gwVars, envVars>>
    /\ UNCHANGED <<storeVars, mounted, effectPc, cleanupSub, msgFetches,
                   chatFetches, chatHandlers, dbMessages, dbChats, channels,
                   chatChannel, pushQ, nextSub, histVars>>

\* A sendMessage that appends the inserted row to the message list itself.
SendInsertDoneAppends(task, ok) ==
    /\ Quiet
    /\ task \in sends /\ task.stage = "insert"
    /\ IF ok
       THEN /\ Len(dbMessages) < MaxMsgs
            /\ CommitMessage(task.chat, task.at, AttachmentUrl(task.att),
                             AttachmentType(task.att))
            /\ messages' = Append(messages, dbMessages'[Len(dbMessages')])
            /\ \E t \in clock..MaxTime :
                 /\ clock' = t
                 /\ sends' = (sends \ {task}) \cup
                      { [task EXCEPT !.stage = "update", !.at = t] }
            /\ toasts' = toasts
       ELSE /\ sends' = sends \ {task}
            /\ toasts' = toasts \cup {"Failed to send message"}
            /\ UNCHANGED <<dbMessages, pushQ, clock, messages>>
    /\ UNCHANGED <<authVars, gwVars, envVars>>
    /\ UNCHANGED <<user, chats, filteredChats, currentChat, chatsLoading,
                   messageSubscription, mounted, effectPc, cleanupSub,
                   msgFetches, chatFetches, chatHandlers, dbChats, channels,
                   chatChannel, nextSub, histVars>>

\* The insert is answered: the row is committed and the chat update is built
\* (updated_at: new Date()) and sent, or the catch block toasts.
SendInsertDone(task, ok) ==
    /\ Quiet
    /\ task \in sends /\ task.stage = "insert"
    /\ IF ok
       THEN /\ Len(dbMessages) < MaxMsgs
            /\ CommitMessage(task.chat, task.at, AttachmentUrl(task.att),
                             AttachmentType(task.att))
            /\ \E t \in clock..MaxTime :
                 /\ clock' = t
                 /\ sends' = (sends \ {task}) \cup
                      { [task EXCEPT !.stage = "update", !.at = t] }
            /\ toasts' = toasts
       ELSE /\ sends' = sends \ {task}
            /\ toasts' = toasts \cup {"Failed to send message"}
            /\ UNCHANGED <<dbMessages, pushQ, clock>>
    /\ UNCHANGED <<authVars, gwVars, envVars>>
    /\ UNCHANGED <<storeVars, mounted, effectPc, cleanupSub, msgFetches,
                   chatFetches, chatHandlers, dbChats, channels, chatChannel,
                   nextSub, histVars>>

\* The chat update is answered; its result is not looked at.
SendUpdateDone(task, ok) ==
    /\ Quiet
    /\ task \in sends /\ task.stage = "update"
    /\ sends' = sends \ {task}
    /\ IF ok THEN CommitChat(task.chat, task.at)
             ELSE UNCHANGED <<dbChats, chatHandlers>>
    /\ UNCHANGED <<authVars, gwVars, envVars>>
    /\ UNCHANGED <<storeVars, mounted, effectPc, cleanupSub, msgFetches,
                   chatFetches, toasts, dbMessages, channels, chatChannel,
                   pushQ, nextSub, clock, histVars>>

\* ------------------------------------------------------- other clients
\* Another client inserts a message; created_at is that client's clock.
OtherClientInsert(chatId, t) ==
    /\ Quiet
    /\ Len(dbMessages) < MaxMsgs
    /\ CommitMessage(chatId, t, Null, Null)
    /\ UNCHANGED <<authVars, gwVars, envVars>>
    /\ UNCHANGED <<storeVars, effectVars, dbChats, channels, chatChannel,
                   nextSub, clock, histVars>>

\* Another client writes a chats row (its send bumps updated_at).
OtherClientUpdateChat(chatId, t) ==
    /\ Quiet
    /\ t # dbChats[chatId].updated_at
    /\ CommitChat(chatId, t)
    /\ UNCHANGED <<authVars, gwVars, envVars>>
    /\ UNCHANGED <<storeVars, mounted, effectPc, cleanupSub, msgFetches,
                   chatFetches, sends, toasts, dbMessages, channels,
                   chatChannel, pushQ, nextSub, clock, histVars>>

\* Another client's sendMessage succeeds: its message row (created_at t) and
\* its chat update (updated_at t) commit, and this client's chat handler
\* starts on the event.
OtherClientSend(chatId, t) ==
    /\ Quiet
    /\ Len(dbMessages) < MaxMsgs
    /\ chatChannel # Null => Cardinality(chatHandlers) < MaxChatHandlers
    /\ CommitMessage(chatId, t, Null, Null)
    /\ CommitChat(chatId, t)
    /\ UNCHANGED <<authVars, gwVars, envVars>>
    /\ UNCHANGED <<storeVars, mounted, effectPc, cleanupSub, msgFetches,
                   chatFetches, sends, toasts, channels, chatChannel, nextSub,
                   clock, histVars>>

\* --------------------------------------------------------------- unmount
\* ChatsProvider unmounts: every effect's cleanup runs.  The [currentChat]
\* effect's cleanup removes the messageSubscription its closure captured; the
\* [user] effect's cleanup removes the 'public:chats' channel.
Unmount ==
    /\ Idle
    /\ mounted' = FALSE
    /\ channels' = IF cleanupSub # NoSub THEN ChannelsWithout(cleanupSub) ELSE channels
    /\ pushQ' = IF cleanupSub # NoSub THEN QueueWithout(cleanupSub) ELSE pushQ
    /\ chatChannel' = Null
    /\ lastAct' = "other"
    /\ UNCHANGED <<authVars, gwVars, envVars>>
    /\ UNCHANGED <<storeVars, effectPc, cleanupSub, msgFetches, chatFetches,
                   chatHandlers, sends, toasts, dbMessages, dbChats, nextSub,
                   clock, applied, lastQuery>>

\* ------------------------------------------ [user] effects (lines 254-374)
\* useAuth().user changes (to another user, to null, or to a new object for
\* the same user): fetchChats() runs up to its first await and the
\* 'public:chats' channel of the previous render is replaced.
AuthUserChanged(u) ==
    /\ Idle
    /\ u # Null \/ user # Null
    /\ u # Null => Cardinality(chatFetches) < MaxChatFetches
    /\ user' = u
    /\ chatFetches' =
         IF u = Null THEN chatFetches
         ELSE chatFetches \cup
                { [user |-> u, stage |-> "members", ids |-> {}, rows |-> <<>>] }
    /\ chatsLoading' = IF u = Null THEN chatsLoading ELSE TRUE
    /\ chatChannel' = u
    /\ lastAct' = "other"
    /\ UNCHANGED <<authVars, gwVars, envVars>>
    /\ UNCHANGED <<chats, filteredChats, currentChat, messages,
                   messageSubscription, mounted, effectPc, cleanupSub,
                   msgFetches, chatHandlers, sends, toasts, dbMessages, dbChats,
                   channels, pushQ, nextSub, clock, applied, lastQuery>>

\* chat_members is answered: the user's chat ids, or an error.
ChatFetchMembers(task, ok) ==
    /\ Quiet
    /\ task \in chatFetches /\ task.stage = "members"
    /\ LET ids == { c \in ChatIds : <<task.user, c>> \in dbMembers }
       IN  chatFetches' = (chatFetches \ {task}) \cup
             { IF ~ok THEN [task EXCEPT !.stage = "err"]
               ELSE IF ids = {} THEN [task EXCEPT !.stage = "none"]
               ELSE [task EXCEPT !.stage = "chats", !.ids = ids] }
    /\ UNCHANGED <<authVars, gwVars, envVars>>
    /\ UNCHANGED <<storeVars, mounted, effectPc, cleanupSub, msgFetches,
                   chatHandlers, sends, toasts, backendVars, histVars>>

\* chats is answered: the rows by updated_at descending, or an error.
ChatFetchRows(task, ok) ==
    /\ Quiet
    /\ task \in chatFetches /\ task.stage = "chats"
    /\ \E rows \in SelectChats(task.ids) :
         chatFetches' = (chatFetches \ {task}) \cup
           { IF ok THEN [task EXCEPT !.stage = "last", !.rows = rows]
                   ELSE [task EXCEPT !.stage = "err"] }
    /\ UNCHANGED <<authVars, gwVars, envVars>>
    /\ UNCHANGED <<storeVars, mounted, effectPc, cleanupSub, msgFetches,
                   chatHandlers, sends, toasts, backendVars, histVars>>

\* The last-message queries are answered (Promise.all); a query that fails
\* leaves last_message undefined.
ChatFetchLast(task, failed) ==
    /\ Quiet
    /\ task \in chatFetches /\ task.stage = "last"
    /\ chatFetches' = (chatFetches \ {task}) \cup
         { [task EXCEPT !.stage = "done",
              !.rows = [i \in 1..Len(task.rows) |->
                 [task.rows[i] EXCEPT !.last_message =
                    IF task.rows[i].id \in failed THEN 0
                    ELSE LastMessageOf(task.rows[i].id)]]] }
    /\ UNCHANGED <<authVars, gwVars, envVars>>
    /\ UNCHANGED <<storeVars, mounted, effectPc, cleanupSub, msgFetches,
                   chatHandlers, sends, toasts, backendVars, histVars>>

\* fetchChats resumes after its last await: setChats / setFilteredChats, the
\* catch block's toast, and finally setLoading(false).
ChatFetchDeliver(task) ==
    /\ Quiet
    /\ task \in chatFetches /\ task.stage \in {"done", "none", "err"}
    /\ chatFetches' = chatFetches \ {task}
    /\ IF task.stage = "done"
       THEN /\ chats' = task.rows
            /\ filteredChats' = task.rows
            /\ applied' = [c \in ChatIds |->
                 IF \E i \in 1..Len(task.rows) : task.rows[i].id = c
                 THEN task.rows[CHOOSE i \in 1..Len(task.rows) : task.rows[i].id = c]
                 ELSE applied[c]]
       ELSE UNCHANGED <<chats, filteredChats, applied>>
    /\ toasts' = IF task.stage = "err"
                 THEN toasts \cup {"Failed to load chats"} ELSE toasts
    /\ chatsLoading' = FALSE
    /\ UNCHANGED <<authVars, gwVars, envVars>>
    /\ UNCHANGED <<user, currentChat, messages, messageSubscription, mounted,
                   effectPc, cleanupSub, msgFetches, chatHandlers, sends,
                   backendVars, lastAct, lastQuery>>

\* A handler that re-fetches the chat whatever the membership query answers.
ChatEventMemberNoCheck(task, ok) ==
    /\ Quiet
    /\ task \in chatHandlers /\ task.stage = "member"
    /\ chatHandlers' = (chatHandlers \ {task}) \cup
         { [task EXCEPT !.stage = "refetch"] }
    /\ UNCHANGED <<authVars, gwVars, envVars>>
    /\ UNCHANGED <<storeVars, mounted, effectPc, cleanupSub, msgFetches,
                   chatFetches, sends, toasts, backendVars, histVars>>

\* The chat-change handler's membership query is answered: without a row
\* (or on an error) the handler ends.
ChatEventMember(task, ok) ==
    /\ Quiet
    /\ task \in chatHandlers /\ task.stage = "member"
    /\ chatHandlers' = (chatHandlers \ {task}) \cup
         (IF ok /\ <<task.user, task.chat>> \in dbMembers
          THEN { [task EXCEPT !.stage = "refetch"] } ELSE {})
    /\ UNCHANGED <<authVars, gwVars, envVars>>
    /\ UNCHANGED <<storeVars, mounted, effectPc, cleanupSub, msgFetches,
                   chatFetches, sends, toasts, backendVars, histVars>>

\* The handler's re-fetch of the chat is answered: without a row the handler
\* ends.
ChatEventRefetch(task, ok) ==
    /\ Quiet
    /\ task \in chatHandlers /\ task.stage = "refetch"
    /\ chatHandlers' = (chatHandlers \ {task}) \cup
         (IF ok THEN { [task EXCEPT !.stage = "merge", !.row = ChatRow(task.chat)] }
          ELSE {})
    /\ UNCHANGED <<authVars, gwVars, envVars>>
    /\ UNCHANGED <<storeVars, mounted, effectPc, cleanupSub, msgFetches,
                   chatFetches, sends, toasts, backendVars, histVars>>

\* A merge that appends the row whether or not the list holds its id.
MergeChatAppend(prev, updatedChat) == Append(prev, updatedChat)

\* prev => exists ? prev.map(chat => chat.id === updatedChat.id ? updatedChat
\* : chat) : [...prev, updatedChat]
MergeChat(prev, updatedChat) ==
    IF \E i \in 1..Len(prev) : prev[i].id = updatedChat.id
    THEN [i \in 1..Len(prev) |->
            IF prev[i].id = updatedChat.id THEN updatedChat ELSE prev[i]]
    ELSE Append(prev, updatedChat)

\* The handler resumes with updatedChat and merges it into both lists.
ChatEventMerge(task) ==
    /\ Quiet
    /\ task \in chatHandlers /\ task.stage = "merge"
    /\ chatHandlers' = chatHandlers \ {task}
    /\ chats' = MergeChat(chats, task.row)
    /\ filteredChats' = MergeChat(filteredChats, task.row)
    /\ applied' = [applied EXCEPT ![task.chat] = task.row]
    /\ UNCHANGED <<authVars, gwVars, envVars>>
    /\ UNCHANGED <<user, currentChat, messages, chatsLoading,
                   messageSubscription, mounted, effectPc, cleanupSub,
                   msgFetches, chatFetches, sends, toasts, backendVars,
                   lastAct, lastQuery>>

\* ------------------------------------------- filterChats (lines 498-509)
FilterChats(query) ==
    /\ Idle
    /\ filteredChats' = FilterResult(chats, query)
    /\ lastAct' = "other"
    /\ lastQuery' = query
    /\ UNCHANGED <<authVars, gwVars, envVars>>
    /\ UNCHANGED <<user, chats, currentChat, messages, chatsLoading,
                   messageSubscription, effectVars, backendVars, applied>>

\* ------------------------------------------------------------ AuthProvider
\* Sessions the provider can hold; session.user is the signed-in user.
Sessions == {NoSession} \cup [user : Users, token : 1..MaxTokens]

\* session?.user ?? null
UserOf(s) == s.user

\* error.message of a provider error: empty (the fallback text is shown) or not.
ErrorMessages == {"", "Invalid login credentials"}

\* error.message || fallback
ErrorToast(msg, fallback) == IF msg = "" THEN fallback ELSE msg

\* ChatsProvider state and backend tables, which AuthProvider never writes.
chatSide ==
    <<chats, filteredChats, currentChat, messages, chatsLoading,
      messageSubscription, mounted, effectPc, cleanupSub, msgFetches,
      chatFetches, chatHandlers, sends, toasts, backendVars, histVars,
      gwVars, envVars>>

NotNotified == [session |-> NoSession, times |-> 0]

\* The two mount effects: without a client, a toast and loading = false; with
\* one, loading = true, getSession() is called and the listener registered.
AuthMount ==
    /\ authPc = "init"
    /\ authPc' = "mounted"
    /\ IF ~configured
       THEN /\ authToast' =
                 "Supabase connection not configured. Please connect to Supabase."
            /\ loading' = FALSE
            /\ UNCHANGED <<getSession, listening>>
       ELSE /\ loading' = TRUE
            /\ getSession' = [stage |-> "pending", value |-> NoSession]
            /\ listening' = TRUE
            /\ authToast' = authToast
    /\ notified' = NotNotified
    /\ UNCHANGED <<user, session, configured, authCalls, route, provSession,
                   authEvents, accounts, dbUsers, chatSide>>

\* The provider answers getSession() with the session it holds.
GetSessionResolve ==
    /\ getSession.stage = "pending"
    /\ getSession' = [stage |-> "resolved", value |-> provSession]
    /\ UNCHANGED <<user, authToast, session, loading, configured, authPc,
                   listening, authCalls, route, provSession, authEvents,
                   accounts, dbUsers, notified, chatSide>>

\* A .then callback without setLoading(false).
GetSessionThenStillLoading ==
    /\ getSession.stage = "resolved"
    /\ getSession' = [getSession EXCEPT !.stage = "done"]
    /\ session' = getSession.value
    /\ user' = UserOf(getSession.value)
    /\ notified' = NotNotified
    /\ UNCHANGED <<authToast, loading, configured, authPc, listening,
                   authCalls, route, provSession, authEvents, accounts,
                   dbUsers, chatSide>>

\* The .then callback of getSession().
GetSessionThen ==
    /\ getSession.stage = "resolved"
    /\ getSession' = [getSession EXCEPT !.stage = "done"]
    /\ session' = getSession.value
    /\ user' = UserOf(getSession.value)
    /\ loading' = FALSE
    /\ notified' = NotNotified
    /\ UNCHANGED <<authToast, configured, authPc, listening, authCalls, route,
                   provSession, authEvents, accounts, dbUsers, chatSide>>

\* The provider's session changes outside this client's calls (token refresh,
\* expiry, another tab) or is announced again; the listener is notified.
ProviderNotify(s) ==
    /\ listening
    /\ Len(authEvents) < MaxAuthEvents
    /\ s # NoSession => s.user \in accounts
    /\ provSession' = s
    /\ authEvents' = Append(authEvents, s)
    /\ UNCHANGED <<user, authToast, session, loading, configured, authPc,
                   getSession, listening, authCalls, route, accounts, dbUsers,
                   notified, chatSide>>

\* A callback that reads the user from the session state of its render
\* instead of from its argument.
OnAuthStateChangeStaleUser ==
    /\ authEvents # <<>>
    /\ LET s == Head(authEvents) IN
         /\ session' = s
         /\ user' = UserOf(session)
         /\ loading' = FALSE
         /\ notified' = IF notified.times > 0 /\ notified.session = s
                        THEN [session |-> s, times |-> 2]
                        ELSE [session |-> s, times |-> 1]
    /\ authEvents' = Tail(authEvents)
    /\ UNCHANGED <<authToast, configured, authPc, getSession, listening,
                   authCalls, route, provSession, accounts, dbUsers, chatSide>>

\* The onAuthStateChange callback handles the oldest notification.
OnAuthStateChange ==
    /\ authEvents # <<>>
    /\ LET s == Head(authEvents) IN
         /\ session' = s
         /\ user' = UserOf(s)
         /\ loading' = FALSE
         /\ notified' = IF notified.times > 0 /\ notified.session = s
                        THEN [session |-> s, times |-> 2]
                        ELSE [session |-> s, times |-> 1]
    /\ authEvents' = Tail(authEvents)
    /\ UNCHANGED <<authToast, configured, authPc, getSession, listening,
                   authCalls, route, provSession, accounts, dbUsers, chatSide>>

\* The first lines of signIn / signUp / signOut: without a client a toast and,
\* by the finally block, loading = false; else loading = true and the request.
AuthCall(op, u) ==
    /\ authPc = "mounted"
    /\ IF ~configured
       THEN /\ authToast' =
                 "Authentication service unavailable. Please connect to Supabase."
            /\ loading' = FALSE
            /\ UNCHANGED authCalls
       ELSE /\ Cardinality(authCalls) < MaxAuthCalls
            /\ loading' = TRUE
            /\ authCalls' = authCalls \cup
                 {[op |-> op, user |-> u, stage |-> "auth"]}
            /\ authToast' = authToast
    /\ notified' = NotNotified
    /\ UNCHANGED <<user, session, configured, authPc, getSession, listening,
                   route, provSession, authEvents, accounts, dbUsers, chatSide>>

SignIn(u) == AuthCall("signIn", u)

SignUp(u) == AuthCall("signUp", u)

SignOut == AuthCall("signOut", Null)

\* Catch and finally blocks that leave loading as it is.
AuthCallFailsStillLoading(task, msg, fallback) ==
    /\ authToast' = ErrorToast(msg, fallback)
    /\ loading' = loading
    /\ authCalls' = authCalls \ {task}
    /\ notified' = NotNotified

\* The catch and finally blocks: the error's message or the fallback is shown
\* and loading = false.
AuthCallFails(task, msg, fallback) ==
    /\ authToast' = ErrorToast(msg, fallback)
    /\ loading' = FALSE
    /\ authCalls' = authCalls \ {task}
    /\ notified' = NotNotified

\* signInWithPassword is answered.  On success the provider holds a new
\* session and notifies the listener; the code goes on to the users upsert.
SignInAuthDone(task, ok, msg) ==
    /\ task \in authCalls /\ task.op = "signIn" /\ task.stage = "auth"
    /\ IF ok
       THEN /\ task.user \in accounts
            /\ Len(authEvents) < MaxAuthEvents
            /\ \E t \in 1..MaxTokens :
                 /\ provSession' = [user |-> task.user, token |-> t]
                 /\ authEvents' = Append(authEvents, provSession')
            /\ authCalls' = (authCalls \ {task}) \cup
                 {[task EXCEPT !.stage = "users"]}
            /\ UNCHANGED <<authToast, loading, notified>>
       ELSE /\ AuthCallFails(task, msg, "Failed to sign in")
            /\ UNCHANGED <<provSession, authEvents>>
    /\ UNCHANGED <<user, session, configured, authPc, getSession, listening,
                   route, accounts, dbUsers, chatSide>>

\* A signIn that navigates and reports success only if the upsert succeeded.
SignInUsersDoneStrict(task, ok) ==
    /\ task \in authCalls /\ task.op = "signIn" /\ task.stage = "users"
    /\ dbUsers' = IF ok THEN dbUsers \cup {task.user} ELSE dbUsers
    /\ route' = IF ok THEN "/" ELSE route
    /\ authToast' = IF ok THEN "Successfully logged in!" ELSE authToast
    /\ loading' = FALSE
    /\ authCalls' = authCalls \ {task}
    /\ notified' = NotNotified
    /\ UNCHANGED <<user, session, configured, authPc, getSession, listening,
                   provSession, authEvents, accounts, chatSide>>

\* The users upsert is answered (its error is only logged); navigate('/'),
\* the success toast, and loading = false.
SignInUsersDone(task, ok) ==
    /\ task \in authCalls /\ task.op = "signIn" /\ task.stage = "users"
    /\ dbUsers' = IF ok THEN dbUsers \cup {task.user} ELSE dbUsers
    /\ route' = "/"
    /\ authToast' =
                 "Successfully logged in!"
    /\ loading' = FALSE
    /\ authCalls' = authCalls \ {task}
    /\ notified' = NotNotified
    /\ UNCHANGED <<user, session, configured, authPc, getSession, listening,
                   provSession, authEvents, accounts, chatSide>>

\* auth.signUp is answered.  On success the account exists at the provider
\* and the code goes on to the users insert.
SignUpAuthDone(task, ok, msg) ==
    /\ task \in authCalls /\ task.op = "signUp" /\ task.stage = "auth"
    /\ IF ok
       THEN /\ task.user \notin accounts
            /\ accounts' = accounts \cup {task.user}
            /\ authCalls' = (authCalls \ {task}) \cup
                 {[task EXCEPT !.stage = "users"]}
            /\ UNCHANGED <<authToast, loading, notified>>
       ELSE /\ AuthCallFails(task, msg, "Failed to create account")
            /\ UNCHANGED accounts
    /\ UNCHANGED <<user, session, configured, authPc, getSession, listening,
                   route, provSession, authEvents, dbUsers, chatSide>>

\* A signUp that reports success and navigates only if the insert succeeded.
SignUpUsersDoneStrict(task, ok) ==
    /\ task \in authCalls /\ task.op = "signUp" /\ task.stage = "users"
    /\ dbUsers' = IF ok THEN dbUsers \cup {task.user} ELSE dbUsers
    /\ authToast' =
         IF ok THEN "Account created! Please check your email for verification."
               ELSE "Failed to create account"
    /\ route' = IF ok THEN "/login" ELSE route
    /\ loading' = FALSE
    /\ authCalls' = authCalls \ {task}
    /\ notified' = NotNotified
    /\ UNCHANGED <<user, session, configured, authPc, getSession, listening,
                   provSession, authEvents, accounts, chatSide>>

\* The users insert is answered (its error is only logged); the success
\* toast, navigate('/login'), and loading = false.
SignUpUsersDone(task, ok) ==
    /\ task \in authCalls /\ task.op = "signUp" /\ task.stage = "users"
    /\ dbUsers' = IF ok THEN dbUsers \cup {task.user} ELSE dbUsers
    /\ authToast' =
                 "Account created! Please check your email for verification."
    /\ route' = "/login"
    /\ loading' = FALSE
    /\ authCalls' = authCalls \ {task}
    /\ notified' = NotNotified
    /\ UNCHANGED <<user, session, configured, authPc, getSession, listening,
                   provSession, authEvents, accounts, chatSide>>

\* auth.signOut() settles: "ok" clears the provider's session and notifies
\* the listener; "error" is a returned error, which the code does not read;
\* "throw" is a rejected promise, which reaches the catch block.
SignOutDone(task, outcome, msg) ==
    /\ task \in authCalls /\ task.op = "signOut" /\ task.stage = "auth"
    /\ IF outcome = "throw"
       THEN /\ AuthCallFails(task, msg, "Failed to sign out")
            /\ UNCHANGED <<route, provSession, authEvents>>
       ELSE /\ IF outcome = "ok"
               THEN /\ Len(authEvents) < MaxAuthEvents
                    /\ provSession' = NoSession
                    /\ authEvents' = Append(authEvents, NoSession)
               ELSE UNCHANGED <<provSession, authEvents>>
            /\ route' = "/login"
            /\ authToast' =
                 "Successfully logged out!"
            /\ loading' = FALSE
            /\ authCalls' = authCalls \ {task}
            /\ notified' = NotNotified
    /\ UNCHANGED <<user, session, configured, authPc, getSession, listening,
                   accounts, dbUsers, chatSide>>

\* ---------------------------------------------------------- gateway module
\* The two gateway modules of the repository: "catching" is the one whose
\* reads log an error and return [] (part_002 1-185), "throwing" the one whose
\* functions all throw (part_000).
Variants == {"catching", "throwing"}
GatewayReads == {"fetchUsers", "fetchUserChats", "fetchChatMessages"}
GatewayFunctions == GatewayReads \cup {"sendChatMessage"}

\* A registered user who is a member of no chat.
NewUser == "u3"

NotInitialized == "Supabase client is not initialized"
BackendError == "backend error"

\* State the gateway never writes.
gwRest ==
    <<storeVars, mounted, effectPc, cleanupSub, msgFetches, chatFetches, sends,
      toasts, channels, chatChannel, nextSub, histVars, authVars, gwClient,
      envVars>>

\* How a call ends: what it was called with, and its return value or the
\* error it threw.
Returned(fn, value) ==
    [fn |-> fn, arg |-> gwCall.arg, kind |-> "returned", value |-> value,
     error |-> ""]
Threw(fn, error) ==
    [fn |-> fn, arg |-> gwCall.arg, kind |-> "threw", value |-> <<>>,
     error |-> error]

\* The first request a call makes with a client.
FirstRequest(fn, att) ==
    CASE fn = "fetchUsers" -> "users"
      [] fn = "fetchUserChats" -> "chat_members"
      [] fn = "fetchChatMessages" -> "messages"
      [] OTHER -> IF att = <<>> THEN "messages" ELSE "storage"

\* A gateway function is called.  Without a client: the catching module's
\* reads warn and return [], its sendChatMessage toasts and throws, and the
\* throwing module's functions throw.  With one the first request is sent.
GatewayCall(variant, fn, arg, att) ==
    /\ gwCall.stage = "idle"
    /\ fn # "sendChatMessage" => att = <<>>
    /\ arg \in (CASE fn = "fetchUsers" -> {Null}
                  [] fn = "fetchUserChats" -> Users \cup {NewUser}
                  [] OTHER -> ChatIds)
    /\ IF ~gwClient
       THEN /\ gwCall' = NoCall
            /\ gwLog' = <<>>
            /\ gwOut' = [(IF variant = "catching" /\ fn \in GatewayReads
                          THEN Returned(fn, <<>>)
                          ELSE Threw(fn, NotInitialized)) EXCEPT !.arg = arg]
            /\ gwToast' = IF variant = "catching" /\ fn = "sendChatMessage"
                          THEN NotInitialized ELSE gwToast
            /\ clock' = clock
       ELSE /\ gwLog' = <<FirstRequest(fn, att)>>
            /\ gwOut' = NoOutcome
            /\ gwToast' = gwToast
            /\ \E t \in clock..MaxTime :
                 /\ clock' = IF FirstRequest(fn, att) = "messages"
                                 /\ fn = "sendChatMessage" THEN t ELSE clock
                 /\ gwCall' = [NoCall EXCEPT
                      !.variant = variant, !.fn = fn, !.arg = arg, !.att = att,
                      !.stage = IF fn = "sendChatMessage"
                                THEN (IF att = <<>> THEN "insert" ELSE "upload")
                                ELSE FirstRequest(fn, att),
                      !.at = IF fn = "sendChatMessage" /\ att = <<>>
                             THEN t ELSE 0]
    /\ UNCHANGED <<gwRest, chatHandlers, dbMessages, dbChats, pushQ>>

\* A request of a call is answered with an error: the catching module's reads
\* log it and return [], everything else throws it.
GatewayFails ==
    /\ gwOut' = IF gwCall.variant = "catching" /\ gwCall.fn \in GatewayReads
                THEN Returned(gwCall.fn, <<>>)
                ELSE Threw(gwCall.fn, BackendError)
    /\ gwCall' = NoCall
    /\ gwLog' = gwLog

\* fetchUsers: from('users').select('*') is answered.
GatewayUsersDone(ok) ==
    /\ gwCall.stage = "users"
    /\ IF ok
       THEN /\ \E rows \in SetToSeqs(dbUsers) :
                 gwOut' = Returned(gwCall.fn, rows)
            /\ gwCall' = NoCall
            /\ gwLog' = gwLog
       ELSE GatewayFails
    /\ UNCHANGED <<gwRest, gwToast, chatHandlers, dbMessages, dbChats, pushQ, clock>>

\* A fetchUserChats that asks for the chats whatever the memberships are.
GatewayMembersDoneNoEarlyReturn(ok) ==
    /\ gwCall.stage = "chat_members"
    /\ LET ids == { c \in ChatIds : <<gwCall.arg, c>> \in dbMembers } IN
         IF ~ok THEN GatewayFails
         ELSE /\ gwCall' = [gwCall EXCEPT !.stage = "chats", !.ids = ids]
              /\ gwLog' = Append(gwLog, "chats")
              /\ gwOut' = gwOut
    /\ UNCHANGED <<gwRest, gwToast, chatHandlers, dbMessages, dbChats, pushQ, clock>>

\* fetchUserChats: chat_members is answered; without memberships the function
\* returns [], else it asks for the chats.
GatewayMembersDone(ok) ==
    /\ gwCall.stage = "chat_members"
    /\ LET ids == { c \in ChatIds : <<gwCall.arg, c>> \in dbMembers } IN
         IF ~ok THEN GatewayFails
         ELSE IF ids = {}
         THEN /\ gwOut' = Returned(gwCall.fn, <<>>)
              /\ gwCall' = NoCall
              /\ gwLog' = gwLog
         ELSE /\ gwCall' = [gwCall EXCEPT !.stage = "chats", !.ids = ids]
              /\ gwLog' = Append(gwLog, "chats")
              /\ gwOut' = gwOut
    /\ UNCHANGED <<gwRest, gwToast, chatHandlers, dbMessages, dbChats, pushQ, clock>>

\* fetchUserChats: chats is answered; the last-message queries are sent.
GatewayChatsDone(ok) ==
    /\ gwCall.stage = "chats"
    /\ IF ok
       THEN /\ \E rows \in SelectChats(gwCall.ids) :
                 gwCall' = [gwCall EXCEPT !.stage = "last", !.rows = rows]
            /\ gwLog' = Append(gwLog, "messages")
            /\ gwOut' = gwOut
       ELSE GatewayFails
    /\ UNCHANGED <<gwRest, gwToast, chatHandlers, dbMessages, dbChats, pushQ, clock>>

\* fetchUserChats: the last-message queries are answered (their errors are
\* not read); the chats are returned.
GatewayLastDone(failed) ==
    /\ gwCall.stage = "last"
    /\ gwOut' = Returned(gwCall.fn,
         [i \in 1..Len(gwCall.rows) |->
            [gwCall.rows[i] EXCEPT !.last_message =
               IF gwCall.rows[i].id \in failed THEN 0
               ELSE LastMessageOf(gwCall.rows[i].id)]])
    /\ gwCall' = NoCall
    /\ UNCHANGED <<gwRest, gwLog, gwToast, chatHandlers, dbMessages, dbChats,
                   pushQ, clock>>

\* fetchChatMessages: messages is answered.
GatewayMessagesDone(ok) ==
    /\ gwCall.stage = "messages"
    /\ IF ok
       THEN /\ gwOut' = Returned(gwCall.fn, SelectMessages(gwCall.arg))
            /\ gwCall' = NoCall
            /\ gwLog' = gwLog
       ELSE GatewayFails
    /\ UNCHANGED <<gwRest, gwToast, chatHandlers, dbMessages, dbChats, pushQ, clock>>

\* sendChatMessage: the upload is answered; the type is classified and the
\* insert (created_at: new Date()) is sent, or the upload's error is thrown.
GatewayUploadDone(ok) ==
    /\ gwCall.stage = "upload"
    /\ IF ok
       THEN /\ \E t \in clock..MaxTime :
                 /\ clock' = t
                 /\ gwCall' = [gwCall EXCEPT !.stage = "insert", !.at = t,
                      !.attType = AttachmentType(gwCall.att)]
            /\ gwLog' = Append(gwLog, "messages")
            /\ gwOut' = gwOut
       ELSE GatewayFails /\ clock' = clock
    /\ UNCHANGED <<gwRest, gwToast, chatHandlers, dbMessages, dbChats, pushQ>>

\* sendChatMessage: the insert is answered; the row is committed and the chat
\* update (updated_at: new Date()) is sent, or the insert's error is thrown.
GatewayInsertDone(ok) ==
    /\ gwCall.stage = "insert"
    /\ IF ok
       THEN /\ Len(dbMessages) < MaxMsgs
            /\ CommitMessage(gwCall.arg, gwCall.at, AttachmentUrl(gwCall.att),
                             gwCall.attType)
            /\ \E t \in clock..MaxTime :
                 /\ clock' = t
                 /\ gwCall' = [gwCall EXCEPT !.stage = "update", !.at = t,
                      !.rows = <<dbMessages'[Len(dbMessages')]>>]
            /\ gwLog' = Append(gwLog, "chats")
            /\ gwOut' = gwOut
       ELSE GatewayFails /\ UNCHANGED <<dbMessages, pushQ, clock>>
    /\ UNCHANGED <<gwRest, gwToast, chatHandlers, dbChats>>

\* A sendChatMessage that throws the error of its chat update.
GatewayUpdateDoneThrows(ok) ==
    /\ gwCall.stage = "update"
    /\ IF ok THEN CommitChat(gwCall.arg, gwCall.at)
             ELSE UNCHANGED <<dbChats, chatHandlers>>
    /\ gwOut' = IF ok THEN Returned(gwCall.fn, gwCall.rows)
                      ELSE Threw(gwCall.fn, BackendError)
    /\ gwCall' = NoCall
    /\ UNCHANGED <<gwRest, gwLog, gwToast, dbMessages, pushQ, clock>>

\* sendChatMessage: the chat update is answered (its result is not read); the
\* new message is returned.
GatewayUpdateDone(ok) ==
    /\ gwCall.stage = "update"
    /\ IF ok THEN CommitChat(gwCall.arg, gwCall.at)
             ELSE UNCHANGED <<dbChats, chatHandlers>>
    /\ gwOut' = Returned(gwCall.fn, gwCall.rows)
    /\ gwCall' = NoCall
    /\ UNCHANGED <<gwRest, gwLog, gwToast, dbMessages, pushQ, clock>>

\* Another client's sign-in writes a users row.
OtherClientUpsertUser(u) ==
    /\ u \notin dbUsers
    /\ dbUsers' = dbUsers \cup {u}
    /\ UNCHANGED <<storeVars, effectVars, backendVars, histVars, gwVars,
                   envVars, session, loading, configured, authPc, getSession, listening,
                   authCalls, route, authToast, provSession, authEvents,
                   accounts, notified>>

GatewaySteps ==
    \/ \E variant \in Variants, fn \in GatewayFunctions,
          arg \in Users \cup {NewUser} \cup ChatIds \cup {Null},
          att \in Attachments :
            GatewayCall(variant, fn, arg, att)
    \/ \E ok \in BOOLEAN : GatewayUsersDone(ok)
    \/ \E ok \in BOOLEAN : GatewayMembersDone(ok)
    \/ \E ok \in BOOLEAN : GatewayChatsDone(ok)
    \/ \E failed \in {{}, ChatIds} : GatewayLastDone(failed)
    \/ \E ok \in BOOLEAN : GatewayMessagesDone(ok)
    \/ \E ok \in BOOLEAN : GatewayUploadDone(ok)
    \/ \E ok \in BOOLEAN : GatewayInsertDone(ok)
    \/ \E ok \in BOOLEAN : GatewayUpdateDone(ok)

\* The gateway with or without a client, over a backend with or without a
\* users row; other clients insert messages.
InitGatewaySpec ==
    /\ InitStore
    /\ InitChats
    /\ InitAuthState
    /\ configured = TRUE
    /\ provSession = NoSession
    /\ accounts = Users
    /\ InitGateway
    /\ env \in [url : BOOLEAN, key : BOOLEAN]
    /\ gwClient = HasClient(env)
    /\ chatsModule = "client"

NextGateway ==
    \/ GatewaySteps
    \/ \E u \in Users : OtherClientUpsertUser(u)
    \/ \E c \in ChatIds, t \in Times : OtherClientInsert(c, t)

SpecGateway == InitGatewaySpec /\ [][NextGateway]_vars

\* --------------------------------------------------------- specification
\* Sign-in and the chat-list fetch.
ChatListSteps ==
    \/ \E task \in chatFetches, ok \in BOOLEAN : ChatFetchMembers(task, ok)
    \/ \E task \in chatFetches, ok \in BOOLEAN : ChatFetchRows(task, ok)
    \/ \E task \in chatFetches, failed \in {{}, ChatIds} : ChatFetchLast(task, failed)
    \/ \E task \in chatFetches : ChatFetchDeliver(task)

\* Chat selection and the [currentChat] effect.
SelectSteps ==
    \/ \E c \in Range(chats) \cup Range(filteredChats) \cup {NoChat} :
         SetCurrentChat(c)
    \/ EffectCleanup
    \/ EffectFetchMessages
    \/ EffectRemovePrevious
    \/ EffectSubscribe

\* The message list: fetch completions and push events.
MessageSteps ==
    \/ \E task \in msgFetches, ok \in BOOLEAN : MsgFetchResolve(task, ok)
    \/ \E task \in msgFetches : MsgFetchDeliver(task)
    \/ DeliverMessageEvent
    \/ \E c \in ChatIds, t \in Times : OtherClientInsert(c, t)

SendSteps ==
    \/ \E att \in Attachments : SendMessage(att)
    \/ \E task \in sends, ok \in BOOLEAN : SendUploadDone(task, ok)
    \/ \E task \in sends, ok \in BOOLEAN : SendInsertDone(task, ok)
    \/ \E task \in sends, ok \in BOOLEAN : SendUpdateDone(task, ok)

\* Chat-table push events and their handler.
ChatEventSteps ==
    \/ \E c \in ChatIds, t \in 1..MaxUpdatedAt : OtherClientUpdateChat(c, t)
    \/ \E task \in chatHandlers, ok \in BOOLEAN : ChatEventMember(task, ok)
    \/ \E task \in chatHandlers, ok \in BOOLEAN : ChatEventRefetch(task, ok)
    \/ \E task \in chatHandlers : ChatEventMerge(task)

\* The store once user u1 has signed in and fetchChats has delivered the two
\* chats u1 is a member of (SpecChats reaches this state: LoadedReachable).
InitLoaded ==
    /\ user = "u1"
    /\ chats = <<ChatRow("A"), ChatRow("B")>>
    /\ filteredChats = chats
    /\ currentChat = NoChat
    /\ messages = <<>>
    /\ chatsLoading = FALSE
    /\ messageSubscription = NoSub
    /\ mounted = TRUE
    /\ effectPc = "idle"
    /\ cleanupSub = NoSub
    /\ msgFetches = {}
    /\ chatFetches = {}
    /\ chatHandlers = {}
    /\ sends = {}
    /\ toasts = {}
    /\ dbMessages = <<>>
    /\ channels = {}
    /\ chatChannel = "u1"
    /\ pushQ = <<>>
    /\ nextSub = 1
    /\ clock = 1
    /\ lastAct = "other"
    /\ applied = [c \in ChatIds |-> ChatRow(c)]
    /\ lastQuery = <<>>

\* The store after the chat list of u1 has loaded.
Init == InitChats /\ InitLoaded /\ InitAuthIdle /\ InitGatewayIdle

\* The message list, from the loaded chat list: the user selects chats,
\* message fetches complete or fail, other clients insert messages and the
\* push events arrive.
Next ==
    \/ SelectSteps
    \/ MessageSteps

Spec == Init /\ [][Next]_vars

\* The per-chat subscription, from the loaded chat list: the user selects and
\* deselects chats, the provider unmounts, push events arrive.
NextSelect ==
    \/ SelectSteps
    \/ Unmount
    \/ \E c \in ChatIds, t \in Times : OtherClientInsert(c, t)
    \/ DeliverMessageEvent

SpecSelect == Init /\ [][NextSelect]_vars

\* Sending, from the loaded chat list: the user selects chats, sends with or
\* without an attachment, signs out; the sent messages come back as events.
NextSend ==
    \/ \E u \in {Null} : AuthUserChanged(u)
    \/ SelectSteps
    \/ SendSteps
    \/ DeliverMessageEvent

SpecSend == Init /\ [][NextSend]_vars

\* The store after u1 selected chat A and the [currentChat] effect fetched
\* its (no) messages and subscribed to it (Spec reaches this state:
\* SelectedReachable).
InitAttach ==
    /\ InitChats
    /\ InitAuthIdle
    /\ InitGatewayIdle
    /\ user = "u1"
    /\ chats = <<ChatRow("A"), ChatRow("B")>>
    /\ filteredChats = chats
    /\ currentChat = ChatRow("A")
    /\ messages = <<>>
    /\ chatsLoading = FALSE
    /\ messageSubscription = [n |-> 1, chat |-> "A"]
    /\ mounted = TRUE
    /\ effectPc = "idle"
    /\ cleanupSub = NoSub
    /\ msgFetches = {}
    /\ chatFetches = {}
    /\ chatHandlers = {}
    /\ sends = {}
    /\ toasts = {}
    /\ dbMessages = <<>>
    /\ channels = { [n |-> 1, chat |-> "A"] }
    /\ chatChannel = "u1"
    /\ pushQ = <<>>
    /\ nextSub = 2
    /\ clock = 1
    /\ lastAct = "other"
    /\ applied = [c \in ChatIds |-> ChatRow(c)]
    /\ lastQuery = <<>>

\* Sending with an attachment of any declared type, through the store's
\* sendMessage and through the gateway's sendChatMessage (part_002) to chat A.
NextAttach ==
    \/ \E att \in AnyAttachments : SendMessage(att)
    \/ \E task \in sends, ok \in BOOLEAN : SendUploadDone(task, ok)
    \/ \E task \in sends, ok \in BOOLEAN : SendInsertDone(task, ok)
    \/ \E task \in sends, ok \in BOOLEAN : SendUpdateDone(task, ok)
    \/ DeliverMessageEvent
    \/ \E att \in AnyAttachments :
         GatewayCall("catching", "sendChatMessage", "A", att)
    \/ \E ok \in BOOLEAN : GatewayUploadDone(ok)
    \/ \E ok \in BOOLEAN : GatewayInsertDone(ok)
    \/ \E ok \in BOOLEAN : GatewayUpdateDone(ok)

SpecAttach == InitAttach /\ [][NextAttach]_vars

\* Sending while the first chat of the list is selected and deselected and
\* its messages are fetched: every message is one this store sent.
NextEcho ==
    \/ \E c \in {chats[1], NoChat} : SetCurrentChat(c)
    \/ EffectCleanup
    \/ EffectFetchMessages
    \/ EffectRemovePrevious
    \/ EffectSubscribe
    \/ \E task \in msgFetches, ok \in BOOLEAN : MsgFetchResolve(task, ok)
    \/ \E task \in msgFetches : MsgFetchDeliver(task)
    \/ SendMessage(<<>>)
    \/ \E task \in sends, ok \in BOOLEAN : SendInsertDone(task, ok)
    \/ \E task \in sends, ok \in BOOLEAN : SendUpdateDone(task, ok)
    \/ DeliverMessageEvent

SpecEcho == Init /\ [][NextEcho]_vars

\* The store as constructed, over the chats named as in the mock data.
InitChatList == InitStore /\ InitChats /\ InitAuthIdle /\ InitGatewayIdle

\* The chat list, from the mount: users change, the chat list is fetched,
\* other clients write chat rows, the list is filtered.
NextChats ==
    \/ \E u \in Users \cup {Null} : AuthUserChanged(u)
    \/ ChatListSteps
    \/ ChatEventSteps
    \/ \E q \in Queries : FilterChats(q)

SpecChats == InitChatList /\ [][NextChats]_vars

\* last_message, from the mount, with every backend request answered without
\* an error: u1 signs in, the chat list is fetched, other clients send
\* messages, the chat events are handled.
NextLast ==
    \/ \E u \in {"u1"} : AuthUserChanged(u)
    \/ \E task \in chatFetches : ChatFetchMembers(task, TRUE)
    \/ \E task \in chatFetches : ChatFetchRows(task, TRUE)
    \/ \E task \in chatFetches : ChatFetchLast(task, {})
    \/ \E task \in chatFetches : ChatFetchDeliver(task)
    \/ \E c \in ChatIds, t \in Times : OtherClientSend(c, t)
    \/ \E task \in chatHandlers : ChatEventMember(task, TRUE)
    \/ \E task \in chatHandlers : ChatEventRefetch(task, TRUE)
    \/ \E task \in chatHandlers : ChatEventMerge(task)

SpecLast == InitChatList /\ [][NextLast]_vars

\* Chat events in commit order: as NextLast, with every write of a chat
\* carrying a later updated_at than the row holds, so that of two events of
\* one chat the one with the smaller payload was delivered first.
NextOrder ==
    \/ \E u \in {"u1"} : AuthUserChanged(u)
    \/ \E task \in chatFetches : ChatFetchMembers(task, TRUE)
    \/ \E task \in chatFetches : ChatFetchRows(task, TRUE)
    \/ \E task \in chatFetches : ChatFetchLast(task, {})
    \/ \E task \in chatFetches : ChatFetchDeliver(task)
    \/ \E c \in ChatIds, t \in Times :
         t > dbChats[c].updated_at /\ OtherClientSend(c, t)
    \/ \E task \in chatHandlers : ChatEventMember(task, TRUE)
    \/ \E task \in chatHandlers : ChatEventRefetch(task, TRUE)
    \/ \E task \in chatHandlers : ChatEventMerge(task)

SpecOrder == InitChatList /\ [][NextOrder]_vars

\* The store as constructed, over chats of any names.
InitFilter == InitStore /\ InitAnyChats /\ InitAuthIdle /\ InitGatewayIdle

\* filterChats alone, over chat tables of every naming: the user signs in,
\* the chat list is fetched and merged (one chat event at a time, the
\* handler's two requests answered without an error), and is filtered.
NextFilter ==
    \/ \E u \in {"u1"} : AuthUserChanged(u)
    \/ ChatListSteps
    \/ \E c \in ChatIds, t \in 1..MaxUpdatedAt :
         chatHandlers = {} /\ OtherClientUpdateChat(c, t)
    \/ \E task \in chatHandlers : ChatEventMember(task, TRUE)
    \/ \E task \in chatHandlers : ChatEventRefetch(task, TRUE)
    \/ \E task \in chatHandlers : ChatEventMerge(task)
    \/ \E q \in Queries : FilterChats(q)

SpecFilter == InitFilter /\ [][NextFilter]_vars

\* AuthProvider alone: the mount effects, the getSession() answer, provider
\* notifications and the three calls.  The backend may be configured or not,
\* and the provider may already hold a session of a registered user.
AuthSteps ==
    \/ AuthMount
    \/ GetSessionResolve
    \/ GetSessionThen
    \/ \E s \in Sessions : ProviderNotify(s)
    \/ OnAuthStateChange

AuthCallSteps ==
    \/ \E u \in Users : SignIn(u)
    \/ \E u \in Users : SignUp(u)
    \/ SignOut
    \/ \E task \in authCalls, ok \in BOOLEAN, msg \in ErrorMessages :
         \/ SignInAuthDone(task, ok, msg)
         \/ SignUpAuthDone(task, ok, msg)
    \/ \E task \in authCalls, ok \in BOOLEAN :
         \/ SignInUsersDone(task, ok)
         \/ SignUpUsersDone(task, ok)
    \/ \E task \in authCalls, outcome \in {"ok", "error", "throw"},
          msg \in ErrorMessages : SignOutDone(task, outcome, msg)

InitAuth ==
    /\ InitStore
    /\ InitChats
    /\ InitAuthState
    /\ InitGateway
    /\ env \in [url : BOOLEAN, key : BOOLEAN]
    /\ configured = HasClient(env)
    /\ gwClient = HasClient(env)
    /\ chatsModule = "unloaded"
    /\ accounts = {"u1"}
    /\ provSession \in {s \in Sessions : s # NoSession => s.user \in accounts}

NextAuth == AuthSteps \/ AuthCallSteps

SpecAuth == InitAuth /\ [][NextAuth]_vars

\* The provider answers getSession() and React runs the effects and the
\* .then callback.
SpecAuthFair ==
    /\ SpecAuth
    /\ WF_vars(AuthMount)
    /\ WF_vars(GetSessionResolve)
    /\ WF_vars(GetSessionThen)

\* ================================================================ claims
NoDuplicateIds(list) ==
    \A i, j \in 1..Len(list) : list[i].id = list[j].id => i = j

\* C1: once the selected chat is B and B's own message fetch has completed
\* (with data or with an error), the message list holds no message of another
\* chat A, whatever the order of the fetch completions and push events.
C1_NoForeignMessages ==
    ( /\ mounted /\ effectPc = "idle" /\ currentChat # NoChat
      /\ \A task \in msgFetches : task.chat # currentChat.id ) =>
        \A i \in 1..Len(messages) : messages[i].chat_id = currentChat.id

\* C2: the message list is sorted by created_at ascending.
C2_MessagesSorted ==
    \A i \in 1..(Len(messages) - 1) :
        messages[i].created_at <= messages[i + 1].created_at

\* C3: neither chat list holds two entries of one id, and each entry is the
\* row most recently applied (by a fetch completion or a push merge) for its
\* id.
C3_ChatListConsistent ==
    /\ NoDuplicateIds(chats)
    /\ NoDuplicateIds(filteredChats)
    /\ \A i \in 1..Len(chats) : chats[i] = applied[chats[i].id]
    /\ \A i \in 1..Len(filteredChats) :
         filteredChats[i] = applied[filteredChats[i].id]

\* C3 witness: a push merge has replaced, in place, an entry of a fetched
\* two-chat list (the list no longer descends in updated_at).
C3_Witness ==
    /\ Len(chats) = 2
    /\ chats[1].updated_at < chats[2].updated_at
    /\ filteredChats = chats

\* C4: once the chat-list fetches in flight have completed, the signed-in
\* user is a member of every chat of the chat list.
C4_UserIsMember ==
    (user # Null /\ chatFetches = {}) => \A i \in 1..Len(chats) : <<user, chats[i].id>> \in dbMembers

\* C5: at most one per-chat channel is registered at any moment, the previous
\* one is gone when the next is created, and between effects the registered
\* one is the selected chat's.
C5_OneSubscription ==
    /\ Cardinality(channels) <= 1
    /\ effectPc = "subscribe" => channels = {}
    /\ (mounted /\ effectPc = "idle") =>
         \A sub \in channels : sub.chat = currentChat.id

\* C5 witness: the selection went from A to B; B's channel is the only one.
C5_Witness ==
    /\ effectPc = "idle"
    /\ currentChat.id = "B"
    /\ cleanupSub = [n |-> 1, chat |-> "A"]
    /\ channels = { [n |-> 2, chat |-> "B"] }

\* C6: after the unmount, and while no chat is selected, no per-chat channel
\* is registered.
C6_NoSubscriptionLeft ==
    (~mounted \/ (effectPc = "idle" /\ currentChat = NoChat)) => channels = {}

\* C7: a sendMessage call without a current chat or without a user changes
\* nothing: no call in flight, no row written, no toast, the store as it was.
C7_SendGuardNoop ==
    [][ ((currentChat = NoChat \/ user = Null)
           /\ \E att \in Attachments : SendMessage(att))
        => UNCHANGED <<storeVars, effectVars, backendVars, applied>> ]_vars

\* C7 witness: sendMessage was the last call, made after the user signed out
\* with a chat selected.
C7_Witness ==
    lastAct = "sendMessage" /\ user = Null /\ currentChat # NoChat

\* Case-insensitive containment, letter by letter.
SameLetter(a, b) ==
    a = b \/ \E k \in 1..26 : {a, b} = {UpperCase[k], LowerCase[k]}
ContainsIgnoringCase(name, q) ==
    \E off \in 0..(Len(name) - Len(q)) :
        \A j \in 1..Len(q) : SameLetter(name[off + j], q[j])
FilterExpected(list, q) ==
    IF \A j \in 1..Len(q) : q[j] \in WhiteSpace
    THEN list
    ELSE SelectSeq(list, LAMBDA c :
           c.name # <<>> /\ ContainsIgnoringCase(c.name[1], q))

\* C8: filterChats(q) stores the chats of the full list whose name contains q
\* whatever the case, in order (the full list for a blank q), and changes
\* nothing else.
C8_FilterChats ==
    [][ \A q \in Queries :
          FilterChats(q) =>
            /\ filteredChats' = FilterExpected(chats, q)
            /\ UNCHANGED <<user, chats, currentChat, messages, chatsLoading,
                           messageSubscription, effectVars, backendVars, applied>>
      ]_vars

\* C8 witness: "team" over "Periskope Team Chat" and "Test Demo17" has left
\* only the former.
C8_Witness ==
    /\ { chats[i].name : i \in 1..Len(chats) } = {<<PeriskopeTeamChat>>, <<TestDemo17>>}
    /\ Len(filteredChats) = 1
    /\ filteredChats[1].name = <<PeriskopeTeamChat>>

\* The loaded state the message-side specifications start from is a state
\* the chat-list specification reaches.
LoadedReachable ==
    /\ user = "u1"
    /\ chats = <<ChatRow("A"), ChatRow("B")>>
    /\ filteredChats = chats
    /\ chatsLoading = FALSE
    /\ chatFetches = {} /\ chatHandlers = {} /\ toasts = {}
    /\ chatChannel = "u1"
    /\ applied = [c \in ChatIds |-> ChatRow(c)]
    /\ lastQuery = <<>>
    /\ dbChats = [c \in ChatIds |->
                 [name |-> IF c = "A" THEN <<PeriskopeTeamChat>> ELSE <<TestDemo17>>,
                  updated_at |-> 0]]

\* C9: applying the same auth-session-change notification (same session)
\* twice in a row leaves session, user and loading exactly as after applying
\* it once: the second application changes none of the three.
C9_NotificationIdempotent ==
    [][ ( /\ authEvents # <<>>
          /\ authEvents' = Tail(authEvents)
          /\ notified.times > 0
          /\ notified.session = Head(authEvents) )
        => ( session' = session /\ user' = user /\ loading' = loading ) ]_vars

\* The same session of a signed-in user has been applied twice in a row.
C9_Witness ==
    /\ notified.times = 2
    /\ notified.session # NoSession
    /\ session = notified.session
    /\ user = notified.session.user
    /\ loading = FALSE

\* C10: with a configured backend AuthProvider starts with loading = true and
\* its mount effect asks the provider for the session (loading still true);
\* the answer is the session the provider holds; when the answer is handled,
\* session and user are set to it (both null if there is none) and loading is
\* false; and under a fair answer loading eventually becomes false.
C10_InitialSession ==
    /\ [](configured /\ authPc = "init" => loading = TRUE)
    /\ [][ (configured /\ authPc = "init" /\ authPc' = "mounted")
           => (loading' = TRUE /\ getSession'.stage = "pending") ]_vars
    /\ [][ (getSession.stage = "pending" /\ getSession'.stage = "resolved")
           => getSession'.value = provSession ]_vars
    /\ [][ (getSession.stage = "resolved" /\ getSession'.stage = "done")
           => /\ loading' = FALSE
              /\ session' = getSession.value
              /\ getSession.value # NoSession =>
                    (session' # NoSession /\ user' = getSession.value.user)
              /\ getSession.value = NoSession =>
                    (session' = NoSession /\ user' = Null) ]_vars
    /\ (configured => <>(loading = FALSE))

\* The answer carried a session and has been handled: Authenticated.
C10_Witness ==
    /\ configured
    /\ getSession.stage = "done"
    /\ getSession.value # NoSession
    /\ session = getSession.value
    /\ user = session.user
    /\ loading = FALSE

\* AuthProvider as constructed, both users registered at the provider.
InitSignIn ==
    /\ InitStore
    /\ InitChats
    /\ InitAuthState
    /\ InitGateway
    /\ env \in [url : BOOLEAN, key : BOOLEAN]
    /\ configured = HasClient(env)
    /\ gwClient = HasClient(env)
    /\ chatsModule = "unloaded"
    /\ accounts = Users
    /\ provSession \in Sessions

\* Signing in: the mount effects, the getSession() answer, notifications, and
\* signIn calls with their answers.
NextSignIn ==
    \/ AuthSteps
    \/ \E u \in Users : SignIn(u)
    \/ \E task \in authCalls, ok \in BOOLEAN, msg \in ErrorMessages :
         SignInAuthDone(task, ok, msg)
    \/ \E task \in authCalls, ok \in BOOLEAN : SignInUsersDone(task, ok)

SpecSignIn == InitSignIn /\ [][NextSignIn]_vars

\* The ChatsContext module is evaluated: with a setting missing it logs,
\* toasts, and still calls createClient with the empty strings; whether that
\* call returns a client or throws is supabase-js's.
LoadChatsModule ==
    /\ chatsModule = "unloaded"
    /\ IF HasClient(env)
       THEN chatsModule' = "client" /\ toasts' = toasts
       ELSE /\ toasts' = toasts \cup
                 {"Missing Supabase configuration. Please check the console for details."}
            /\ chatsModule' \in {"client", "threw"}
    /\ UNCHANGED <<storeVars, mounted, effectPc, cleanupSub, msgFetches,
                   chatFetches, chatHandlers, sends, backendVars, histVars,
                   authVars, gwVars, env>>

\* Startup with any of the two settings present or absent: the modules are
\* evaluated, AuthProvider mounts, sign-ins are tried.
NextStartup == LoadChatsModule \/ NextSignIn

SpecStartup == InitSignIn /\ [][NextStartup]_vars

\* React runs the effects and callbacks, the getSession() answer arrives,
\* and a signIn past the provider's answer gets its users upsert answered.
SpecSignInFair ==
    /\ SpecSignIn
    /\ WF_vars(AuthMount)
    /\ WF_vars(GetSessionResolve)
    /\ WF_vars(GetSessionThen)
    /\ WF_vars(OnAuthStateChange)
    /\ WF_vars(\E task \in authCalls, ok \in BOOLEAN : SignInUsersDone(task, ok))

\* A signIn call that the provider has accepted, waiting for the users upsert.
SignInAccepted(task) ==
    task \in authCalls /\ task.op = "signIn" /\ task.stage = "users"

\* C11: when the provider accepts a signIn, it holds a session of that user
\* and notifies the listener of it, and the call goes on to the users upsert;
\* a notified session becomes the session and user of AuthProvider; when the
\* upsert is answered, with or without an error, navigate('/') is called and
\* only that user's profile can have been written; navigate('/') is called at
\* no other moment, so only after the upsert was attempted.
C11_SignInSucceeds ==
    /\ [][ \A task \in authCalls' :
             (SignInAccepted(task)' /\ task \notin authCalls) =>
                /\ provSession'.user = task.user
                /\ authEvents' = Append(authEvents, provSession') ]_vars
    /\ [][ \A task \in authCalls :
             (SignInAccepted(task) /\ task \notin authCalls') =>
                /\ route' = "/"
                /\ dbUsers \subseteq dbUsers'
                /\ dbUsers' \subseteq dbUsers \cup {task.user} ]_vars
    /\ [][ (route' = "/" /\ route # "/") =>
             \E task \in authCalls :
                SignInAccepted(task) /\ task \notin authCalls' ]_vars
    /\ \A s \in Sessions \ {NoSession} :
         (s \in Range(authEvents)) ~> (session = s /\ user = s.user)
    /\ \A u \in Users :
         (\E task \in authCalls : SignInAccepted(task) /\ task.user = u)
            ~> (route = "/")

\* u1 signed in: the profile is written, the session and user are u1's and
\* navigate('/') was the last navigation.
C11_Witness ==
    /\ route = "/"
    /\ authToast = "Successfully logged in!"
    /\ session # NoSession /\ session = provSession
    /\ user = "u1" /\ session.user = "u1"
    /\ "u1" \in dbUsers
    /\ authCalls = {}

\* A signIn call waiting for the provider's answer.
SignInPending(task) ==
    task \in authCalls /\ task.op = "signIn" /\ task.stage = "auth"

\* C12: a signIn made without a backend client, and a signIn the provider
\* rejects, leave session and user as they were, write no profile, do not
\* navigate, show an error message, and end with loading = false.
C12_SignInFails ==
    /\ [][ (~configured /\ \E u \in Users : SignIn(u)) =>
             /\ session' = session /\ user' = user
             /\ dbUsers' = dbUsers /\ route' = route
             /\ authCalls' = authCalls
             /\ authToast' =
                  "Authentication service unavailable. Please connect to Supabase."
             /\ loading' = FALSE ]_vars
    /\ [][ \A task \in authCalls :
             ( /\ SignInPending(task)
               /\ task \notin authCalls'
               /\ ~\E next \in authCalls' : next.stage = "users" ) =>
                /\ session' = session /\ user' = user
                /\ dbUsers' = dbUsers /\ route' = route
                /\ provSession' = provSession /\ authEvents' = authEvents
                /\ authToast' \in {"Failed to sign in", "Invalid login credentials"}
                /\ loading' = FALSE ]_vars

\* The provider has rejected a signIn of an anonymous visitor.
C12_Witness ==
    /\ configured
    /\ authToast = "Invalid login credentials"
    /\ session = NoSession /\ user = Null
    /\ route = "" /\ dbUsers = {}
    /\ authCalls = {}
    /\ loading = FALSE

\* A signOut call waiting for the provider.
SignOutPending(task) ==
    task \in authCalls /\ task.op = "signOut" /\ task.stage = "auth"

\* C13: when a signOut call completes with navigate('/login'), session and
\* user are null, or the notification that clears them is on its way to the
\* onAuthStateChange callback.
C13_SignOutClears ==
    [][ \A task \in authCalls :
          (SignOutPending(task) /\ task \notin authCalls' /\ route' = "/login"
             /\ authToast' = "Successfully logged out!") =>
             \/ (session' = NoSession /\ user' = Null)
             \/ NoSession \in Range(authEvents') ]_vars

\* C14: a gateway call made without a client ends by throwing the
\* not-initialized error, which no successful call does, and makes no
\* backend request.
C14_NotConfigured ==
    (~gwClient /\ gwOut.kind # "none") =>
        /\ gwOut.kind = "threw"
        /\ gwOut.error = NotInitialized
        /\ gwLog = <<>>

\* C15: a read of the gateway whose backend request is answered with an
\* error (the users, chat_members, chats or messages query, or the
\* last-message queries of fetchUserChats) returns [] and does not throw.
C15_ReadsReturnEmpty ==
    [][ ( \/ GatewayUsersDone(FALSE)
          \/ GatewayMembersDone(FALSE)
          \/ GatewayChatsDone(FALSE)
          \/ GatewayMessagesDone(FALSE)
          \/ GatewayLastDone(ChatIds) )
        => gwOut' = Returned(gwCall.fn, <<>>) ]_vars

\* The toasts that report a success.
SuccessToasts ==
    { "Successfully logged in!",
      "Account created! Please check your email for verification.",
      "Successfully logged out!" }

\* C16: when a write of signIn, signUp or signOut is answered with an error
\* (the provider's answer, the users upsert or insert), the call does not end
\* as a success: no success toast, no navigation.
C16_WritesPropagate ==
    [][ ( \E task \in authCalls :
            \/ \E msg \in ErrorMessages :
                 \/ SignInAuthDone(task, FALSE, msg)
                 \/ SignUpAuthDone(task, FALSE, msg)
                 \/ SignOutDone(task, "error", msg)
                 \/ SignOutDone(task, "throw", msg)
            \/ SignInUsersDone(task, FALSE)
            \/ SignUpUsersDone(task, FALSE) )
        => (route' = route /\ authToast' \notin SuccessToasts) ]_vars

\* C17: with the URL or the key absent no module holds a client built from
\* the missing values and none has thrown while loading, and AuthProvider,
\* once mounted, is Anonymous with loading = false.
C17_MissingConfig ==
    ~HasClient(env) =>
        /\ ~configured
        /\ ~gwClient
        /\ chatsModule \notin {"client", "threw"}
        /\ authPc = "mounted" =>
             (session = NoSession /\ user = Null /\ loading = FALSE)

\* C18: once the chat-list fetches and the chat-event handlers have all
\* completed, a last_message held in the chat list is the most recent
\* message of its chat.
C18_LastMessageConverges ==
    (chatFetches = {} /\ chatHandlers = {}) =>
        \A i \in 1..Len(chats) :
            chats[i].last_message # 0 =>
                \A j \in 1..Len(dbMessages) :
                    dbMessages[j].chat_id = chats[i].id =>
                        dbMessages[j].created_at
                            <= dbMessages[chats[i].last_message].created_at

\* The state the attachment specification starts from is a state the message
\* specification reaches.
SelectedReachable ==
    /\ user = "u1"
    /\ chats = <<ChatRow("A"), ChatRow("B")>>
    /\ filteredChats = chats
    /\ currentChat = ChatRow("A")
    /\ messages = <<>>
    /\ messageSubscription = [n |-> 1, chat |-> "A"]
    /\ effectPc = "idle" /\ cleanupSub = NoSub
    /\ msgFetches = {} /\ sends = {} /\ toasts = {}
    /\ dbMessages = <<>> /\ pushQ = <<>>
    /\ channels = { [n |-> 1, chat |-> "A"] }
    /\ nextSub = 2 /\ clock = 1

\* A word occurs in a declared type.
Contains(type, word) ==
    \E i \in 1..Len(type) : \E j \in i..Len(type) : SubSeq(type, i, j) = word
\* The class of a declared type: image, otherwise video, otherwise document.
ClassOf(type) ==
    IF Contains(type, <<"i","m","a","g","e">>) THEN "image"
    ELSE IF Contains(type, <<"v","i","d","e","o">>) THEN "video"
    ELSE "document"
\* The attachment argument of the call whose insert commits in this step.
CommittingAttachment ==
    IF gwCall' # gwCall
    THEN gwCall.att
    ELSE (CHOOSE task \in sends : task.stage = "insert" /\ task \notin sends').att

\* C19: the message row a send commits carries, with an attachment, the class
\* of the attachment's declared type ("image" if the type contains "image",
\* otherwise "video" if it contains "video", otherwise "document"; "image"
\* for "image/png") and its URL, and without an attachment neither
\* attachment_url nor attachment_type.
C19_AttachmentClassified ==
    [][ Len(dbMessages') = Len(dbMessages) + 1 =>
          LET m == dbMessages'[Len(dbMessages')]
              att == CommittingAttachment
          IN  /\ att = <<>> =>
                   m.attachment_url = Null /\ m.attachment_type = Null
              /\ att # <<>> =>
                   /\ m.attachment_type = ClassOf(att[1])
                   /\ m.attachment_url # Null
              /\ att = <<ImagePng>> => m.attachment_type = "image" ]_vars

\* C19 witness: a sendMessage with an image/png attachment has committed its
\* row, of type "image", and awaits its chat update.
C19_Witness ==
    /\ \E task \in sends : task.stage = "update" /\ task.att = <<ImagePng>>
    /\ dbMessages # <<>>
    /\ dbMessages[Len(dbMessages)].attachment_type = "image"

\* The user is a member of no chat.
NoMemberships(u) == \A c \in ChatIds : <<u, c>> \notin dbMembers

\* C20: fetchUserChats for a user without chat memberships ends when the
\* chat_members query is answered: it has asked for no other table, and on
\* the query's answer (no rows, no error) it returns the empty sequence.
C20_NoMembershipsEmpty ==
    [][ (gwCall.fn = "fetchUserChats" /\ NoMemberships(gwCall.arg)
           /\ gwCall' # gwCall)
        => /\ gwCall' = NoCall
           /\ gwLog' = <<"chat_members">>
           /\ GatewayMembersDone(TRUE) =>
                gwOut' = [fn |-> "fetchUserChats", arg |-> gwCall.arg,
                          kind |-> "returned", value |-> <<>>, error |-> ""]
           /\ gwOut'.kind = "threw" =>
                gwCall.variant = "throwing" /\ gwOut'.error = BackendError ]_vars

\* C20 witness: fetchUserChats of a user without memberships has returned the
\* empty sequence after its one query.
C20_Witness ==
    /\ gwOut = [fn |-> "fetchUserChats", arg |-> NewUser, kind |-> "returned",
                value |-> <<>>, error |-> ""]
    /\ gwLog = <<"chat_members">>
    /\ gwClient

\* A signUp call waiting for the provider's answer, and one the provider has
\* accepted, waiting for the answer to its users insert.
SignUpPending(task) ==
    task \in authCalls /\ task.op = "signUp" /\ task.stage = "auth"
SignUpAccepted(task) ==
    task \in authCalls /\ task.op = "signUp" /\ task.stage = "users"

\* C21: when the users insert of an accepted signUp is answered, with or
\* without an error, navigate('/login') is called; a signUp the provider
\* rejects ends without a users insert (no row written, no insert pending)
\* and without a navigation.
C21_SignUpNavigates ==
    /\ [][ \A task \in authCalls :
             (SignUpAccepted(task) /\ task \notin authCalls') =>
                /\ route' = "/login"
                /\ dbUsers \subseteq dbUsers'
                /\ dbUsers' \subseteq dbUsers \cup {task.user} ]_vars
    /\ [][ \A task \in authCalls :
             ( /\ SignUpPending(task)
               /\ task \notin authCalls'
               /\ ~\E next \in authCalls' : next.stage = "users" ) =>
                /\ accounts' = accounts
                /\ dbUsers' = dbUsers
                /\ route' = route
                /\ authCalls' = authCalls \ {task} ]_vars

\* C21 witness: u2's account was created, its users insert was refused, and
\* the sign-up still reported success and navigated to /login.
C21_Witness ==
    /\ "u2" \in accounts
    /\ "u2" \notin dbUsers
    /\ route = "/login"
    /\ authToast = "Account created! Please check your email for verification."
    /\ authCalls = {}

\* The requests of a sendChatMessage call, in the order of the code.
WritesOf(att) ==
    IF att = <<>> THEN <<"messages", "chats">>
                  ELSE <<"storage", "messages", "chats">>
IsPrefixOf(s, t) == Len(s) <= Len(t) /\ s = SubSeq(t, 1, Len(s))
Sending == gwCall.fn = "sendChatMessage"

\* C22: sendChatMessage sends its requests in the order upload (with an
\* attachment), message insert, chat update; a failed upload ends the call
\* with no insert sent and no row written; a failed insert ends it with no
\* chat update sent and no chat written; the chat update is sent only in the
\* step that commits the message row; and when the chat update is answered,
\* with or without an error, the row stays and is what the call returns.
C22_WriteOrder ==
    /\ [](Sending =>
            /\ IsPrefixOf(gwLog, WritesOf(gwCall.att))
            /\ gwLog[Len(gwLog)] =
                 (CASE gwCall.stage = "upload" -> "storage"
                    [] gwCall.stage = "insert" -> "messages"
                    [] OTHER -> "chats"))
    /\ [][ (Sending /\ gwCall.stage = "upload" /\ gwCall' = NoCall) =>
             /\ gwOut'.kind = "threw"
             /\ gwLog' = <<"storage">>
             /\ dbMessages' = dbMessages /\ dbChats' = dbChats ]_vars
    /\ [][ (Sending /\ gwCall.stage = "insert" /\ gwCall' = NoCall) =>
             /\ gwOut'.kind = "threw"
             /\ "chats" \notin Range(gwLog')
             /\ dbMessages' = dbMessages /\ dbChats' = dbChats ]_vars
    /\ [][ (Sending' /\ gwCall'.stage = "update" /\ gwCall.stage # "update") =>
             /\ gwCall.stage = "insert"
             /\ dbMessages' = Append(dbMessages, gwCall'.rows[1])
             /\ gwCall'.rows[1].chat_id = gwCall.arg
             /\ dbChats' = dbChats ]_vars
    /\ [][ (Sending /\ gwCall.stage = "update" /\ gwCall' # gwCall) =>
             /\ dbMessages' = dbMessages
             /\ gwCall.rows[1] \in Range(dbMessages')
             /\ gwOut' = [fn |-> "sendChatMessage", arg |-> gwCall.arg,
                          kind |-> "returned", value |-> gwCall.rows,
                          error |-> ""]
             /\ dbChats'[gwCall.arg].updated_at
                  \in {dbChats[gwCall.arg].updated_at, gwCall.at} ]_vars

\* C22 witness: a sendChatMessage with an attachment has returned its stored
\* message after its three requests, the chat update having failed (the
\* chat's updated_at is still the initial one).
C22_Witness ==
    /\ gwOut.fn = "sendChatMessage" /\ gwOut.kind = "returned"
    /\ gwLog = <<"storage", "messages", "chats">>
    /\ gwOut.value # <<>>
    /\ gwOut.value[1] \in Range(dbMessages)
    /\ gwOut.value[1].attachment_type = "image"
    /\ dbChats[gwOut.arg].updated_at = 0

\* A step of the store's sendMessage: the call, or one of its answers.
SendMessageStep ==
    \/ \E att \in Attachments : SendMessage(att)
    \/ \E task \in sends, ok \in BOOLEAN :
         \/ SendUploadDone(task, ok)
         \/ SendInsertDone(task, ok)
         \/ SendUpdateDone(task, ok)
\* The messages that enter the message list in a step.
Entering == Range(messages') \ Range(messages)
\* The next push event is the selected chat's and its payload is appended.
PushEventApplied ==
    /\ pushQ # <<>> /\ pushQ' = Tail(pushQ)
    /\ Head(pushQ).sub = messageSubscription
    /\ currentChat # NoChat /\ Head(pushQ).new.chat_id = currentChat.id
    /\ messages' = Append(messages, Head(pushQ).new)
\* Message m enters as the payload of the selected chat's next push event.
EntersByPushEvent(m) == PushEventApplied /\ Head(pushQ).new = m
\* Message m enters as a row of a completed message fetch.
EntersByFetch(m) ==
    \E task \in msgFetches :
        /\ task.stage = "ok" /\ task \notin msgFetches'
        /\ messages' = task.data
        /\ m \in Range(task.data)

ReplacedOrAppended(prev, next, row) ==
    IF \E i \in 1..Len(prev) : prev[i].id = row.id
    THEN /\ Len(next) = Len(prev)
         /\ \A i \in 1..Len(prev) :
              next[i] = IF prev[i].id = row.id THEN row ELSE prev[i]
    ELSE /\ Len(next) = Len(prev) + 1
         /\ SubSeq(next, 1, Len(prev)) = prev
         /\ next[Len(next)] = row

\* C24: a chat push event is handled for the user who is signed in when it
\* arrives; the handler of an event for a chat that user is not a member of
\* ends at the membership answer with both chat lists as they were; a handler
\* merges only a chat its user is a member of, and the merge puts the
\* re-fetched row in place of the entry of its id (length and other entries
\* unchanged) or, without such an entry, at the end (length plus one), in the
\* full and in the filtered list.
C24_ChatEventFrame ==
    /\ [][ \A task \in chatHandlers' \ chatHandlers :
             task.stage = "member" => (user # Null /\ task.user = user) ]_vars
    /\ [][ \A task \in chatHandlers :
             ( /\ task.stage = "member"
               /\ <<task.user, task.chat>> \notin dbMembers
               /\ task \notin chatHandlers' ) =>
                /\ chatHandlers' = chatHandlers \ {task}
                /\ chats' = chats /\ filteredChats' = filteredChats ]_vars
    /\ [][ \A task \in chatHandlers :
             (task.stage = "merge" /\ task \notin chatHandlers') =>
                /\ <<task.user, task.chat>> \in dbMembers
                /\ task.row.id = task.chat
                /\ ReplacedOrAppended(chats, chats', task.row)
                /\ ReplacedOrAppended(filteredChats, filteredChats', task.row) ]_vars

\* C24 witness: the re-fetched first chat has replaced its entry of the full
\* list in place and, the filtered list holding only the other chat, has been
\* appended to the filtered list.
C24_Witness ==
    /\ chatHandlers = {}
    /\ Len(chats) = 2 /\ Len(filteredChats) = 2
    /\ chats[1].updated_at = 1 /\ chats[2].updated_at = 0
    /\ filteredChats = <<chats[2], chats[1]>>

\* C25: push events are applied in the order of their delivery: a delivered
\* message event is the oldest one queued and its message goes to the end of
\* the message list, and when the handler of a chat event merges its row, no
\* handler of an earlier event of that chat (one with a smaller updated_at in
\* its payload) is still waiting to merge.
C25_EventsInOrder ==
    /\ [][ (pushQ # <<>> /\ pushQ' = Tail(pushQ)) =>
             messages' = Append(messages, Head(pushQ).new) ]_vars
    /\ [][ \A task \in chatHandlers :
             (task.stage = "merge" /\ task \notin chatHandlers') =>
                \A other \in chatHandlers :
                    (other.user = task.user /\ other.chat = task.chat) =>
                        other.payload >= task.payload ]_vars

\* C26: the message list never holds two messages of one id.
C26_NoDuplicateMessages == NoDuplicateIds(messages)

\* C27: while the selection stays as it is, a message of the selected chat
\* that is in the message list is still in it after the next step: a fetch
\* result that replaces the list does not drop a message a push event put
\* there.
C27_MessagesStay ==
    [][ (currentChat # NoChat /\ currentChat' = currentChat) =>
          \A i \in 1..Len(messages) :
              messages[i].chat_id = currentChat.id =>
                  messages[i] \in Range(messages') ]_vars

\* C28: the filtered chat list is the full chat list filtered by the query of
\* the last filterChats call (the full list when there was no call or the
\* query was blank).
C28_FilteredMatchesQuery == filteredChats = FilterExpected(chats, lastQuery)

\* C29: once the answer to getSession() has been handled and no notification
\* and no call is pending, the session and user of AuthProvider are the
\* session the provider holds, which is the one its last notification
\* carried.
C29_SessionConverges ==
    ( /\ configured /\ authPc = "mounted"
      /\ getSession.stage = "done"
      /\ authEvents = <<>>
      /\ authCalls = {} ) =>
        (session = provSession /\ user = UserOf(provSession))

====
